---- MODULE Spec2Model ----
(***************************************************************************)
(* SOTAforge: the fixed pipeline orchestrator (agents/orchestrator.py),    *)
(* the client entry point (client.py) and the REST front end (api.py).     *)
(*                                                                         *)
(* Text is modelled as a sequence of one-character strings, so that        *)
(* str.strip, str.upper and str.startswith are computed character by       *)
(* character.  Prompt texts are opaque: a prompt is the one-element        *)
(* sequence holding the name of its constant in utils/prompts.py.          *)
(***************************************************************************)
EXTENDS Integers, Sequences, FiniteSets, TLC

\* ------------------------------------------------------------------ bounds
\* most tool-invocation requests the LLM places during one run
MaxToolCalls == 1
\* most non-approving replies the LLM gives during one run
MaxRejections == 2
\* largest value of MAX_RETRIES the model is run with (1..MaxRetriesChoice)
MaxRetriesChoice == 2

\* --------------------------------------------------------- program constants
\* asyncio.sleep(60) in _chat_with_rate_limit_retry
COOLDOWN_SECONDS == 60
\* max_messages=5 of the last attempt of _chat_with_rate_limit_retry
FALLBACK_MAX_MESSAGES == 5
\* Field(..., min_length=1) of SOTARequest.topic
TOPIC_MIN_LENGTH == 1

\* ------------------------------------------------------------------- text
None == <<"<None>">>

APPROVE == <<"A", "P", "P", "R", "O", "V", "E">>

LowerCase == <<"a", "b", "c", "d", "e", "f", "g", "h", "i", "j", "k", "l", "m",
               "n", "o", "p", "q", "r", "s", "t", "u", "v", "w", "x", "y", "z">>

UpperCase == <<"A", "B", "C", "D", "E", "F", "G", "H", "I", "J", "K", "L", "M",
               "N", "O", "P", "Q", "R", "S", "T", "U", "V", "W", "X", "Y", "Z">>

WhiteSpace == {" ", "\t", "\n"}

\* str.upper on one character
upper_char(c) ==
    IF \E i \in 1..Len(LowerCase) : LowerCase[i] = c
    THEN UpperCase[CHOOSE i \in 1..Len(LowerCase) : LowerCase[i] = c]
    ELSE c

\* str.upper
upper(s) == [i \in 1..Len(s) |-> upper_char(s[i])]

\* str.strip: drop the leading and the trailing white space
strip(s) ==
    LET keep == {i \in 1..Len(s) : s[i] \notin WhiteSpace}
    IN  IF keep = {} THEN <<>>
        ELSE LET first == CHOOSE i \in keep : \A j \in keep : i <= j
                 last  == CHOOSE i \in keep : \A j \in keep : j <= i
             IN  SubSeq(s, first, last)

\* str.startswith
startswith(s, prefix) ==
    /\ Len(s) >= Len(prefix)
    /\ SubSeq(s, 1, Len(prefix)) = prefix

\* truth value of an Optional[str]
truthy(s) == s # None /\ s # <<>>

\* validate_step, line 441:
\*   bool(msg.content and msg.content.strip().upper().startswith("APPROVE"))
approved_no_upper(content) ==
    truthy(content) /\ startswith(strip(content), APPROVE)

approved_of(content) ==
    truthy(content) /\ startswith(upper(strip(content)), APPROVE)

\* ------------------------------------------------------------- transcript
\* a turn of the transcript (ChatMessage); absent keys hold None / <<>>
Turn(role, content, tool_calls, tool_call_id) ==
    [role |-> role, content |-> content, tool_calls |-> tool_calls,
     tool_call_id |-> tool_call_id]

\* a turn without the tool_call_id key
NoCallId == 0

SystemTurn(prompt) == Turn("system", <<prompt>>, <<>>, NoCallId)

UserTurn(content) == Turn("user", content, <<>>, NoCallId)

\* msg.model_dump(exclude_unset=True) of the reply of the chat call
AssistantTurn(content, tool_calls) ==
    Turn("assistant", content, tool_calls, NoCallId)

\* a JSON value of a result, as a string: Absent for a missing key or null,
\* NonStr for a value that is true in a test and is not a string (a list)
Absent == "<absent>"

NonStr == "<list>"

\* the normalized result of a tool run: whether it is a dict, its "text" and
\* "sota" entries, and a word for whatever else it holds
Payload(kind, text, sota, rest) == <<kind, text, sota, rest>>

\* a tool turn that does not carry the call id
ToolTurnWithoutId(call, result) ==
    Turn("tool", <<call.name>> \o result, <<>>, NoCallId)

\* the tool turn of _execute_tool_calls, lines 365-378: content is the wrapped
\* result {"tool_call_id", "tool_name", "result"}, the tool name first here
ToolTurn(call, result) ==
    Turn("tool", <<call.name>> \o result, <<>>, call.id)

\* a loop body run at most once: one step back, not as many as it takes
back_up_once(msgs, start_idx) ==
    IF start_idx <= Len(msgs) /\ msgs[start_idx].role = "tool" /\ start_idx > 1
    THEN start_idx - 1
    ELSE start_idx

\* a loop that never reaches the first turn (start_idx > 1 in the source)
RECURSIVE back_up_stops_early(_, _)
back_up_stops_early(msgs, start_idx) ==
    IF start_idx <= Len(msgs) /\ msgs[start_idx].role = "tool" /\ start_idx > 2
    THEN back_up_stops_early(msgs, start_idx - 1)
    ELSE start_idx

\* _trim_message_history, the while loop of lines 282-286
RECURSIVE back_up(_, _)
back_up(msgs, start_idx) ==
    IF start_idx <= Len(msgs) /\ msgs[start_idx].role = "tool" /\ start_idx > 1
    THEN back_up(msgs, start_idx - 1)
    ELSE start_idx

trim_no_back_up(msgs, max_messages) ==
    IF Len(msgs) <= max_messages THEN msgs
    ELSE SubSeq(msgs, Len(msgs) - max_messages + 1, Len(msgs))

\* a cut one turn too early: start_idx = len(messages) - max_messages - 1
trim_one_more(msgs, max_messages) ==
    IF Len(msgs) <= max_messages THEN msgs
    ELSE SubSeq(msgs, back_up(msgs, Len(msgs) - max_messages), Len(msgs))

\* a cut one turn too late: start_idx = len(messages) - max_messages + 1
trim_drops_one(msgs, max_messages) ==
    IF Len(msgs) <= max_messages THEN msgs
    ELSE SubSeq(msgs, back_up(msgs, Len(msgs) - max_messages + 2), Len(msgs))

\* the slice of _get_last_messages, messages[-max_messages:], in the place
\* of messages[start_idx:]: all turns for -0, all but the first for -(-1)
trim_negative_slice(msgs, max_messages) ==
    IF Len(msgs) <= max_messages THEN msgs
    ELSE LET first == IF max_messages > 0 THEN Len(msgs) - max_messages + 1
                      ELSE IF -max_messages < Len(msgs) THEN 1 - max_messages
                      ELSE Len(msgs) + 1
         IN  SubSeq(msgs, back_up(msgs, first), Len(msgs))

\* utils.constants.MAX_MESSAGE_HISTORY, the default limit of the trimmer
\* (line 259); the constant is absent from src/, and no call passes it: a
\* value that the transcript of a run outgrows before its third stage
MAX_MESSAGE_HISTORY == 10

\* _trim_message_history (indices are 1-based here, 0-based in the source)
_trim_message_history(msgs, max_messages) ==
    IF Len(msgs) <= max_messages THEN msgs
    ELSE SubSeq(msgs, back_up(msgs, Len(msgs) - max_messages + 1), Len(msgs))

\* ------------------------------------------------------------------ stages
\* the five run_pipeline_step calls of run_llm_sota, in program order
STAGES == <<"search", "filter", "parse", "analyze", "synthesize">>

\* first argument of each run_pipeline_step call; str.format puts the topic in
step_instruction(i, t) ==
    CASE i = 1 -> <<"SEARCH_INSTRUCTION">> \o t
      [] i = 2 -> <<"FILTER_INSTRUCTION">> \o t
      [] i = 3 -> <<"PARSE_INSTRUCTION">>
      [] i = 4 -> <<"ANALYZE_INSTRUCTION">>
      [] OTHER -> <<"SYNTHESIZE_INSTRUCTION">>

\* a persistence instruction for every stage
save_instruction_every_stage(i) == <<"SAVE_INSTRUCTION">>

\* second argument of each run_pipeline_step call ("" for parse and analyze)
save_instruction(i) ==
    CASE i = 1 -> <<"SAVE_SEARCH_INSTRUCTION">>
      [] i = 2 -> <<"SAVE_FILTER_INSTRUCTION">>
      [] i = 5 -> <<"SAVE_SYNTHESIZE_INSTRUCTION">>
      [] OTHER -> <<>>

\* third argument of each run_pipeline_step call
validation_prompt(i) ==
    CASE i = 1 -> <<"VALIDATE_SEARCH">>
      [] i = 2 -> <<"VALIDATE_FILTER">>
      [] i = 3 -> <<"VALIDATE_PARSE">>
      [] i = 4 -> <<"VALIDATE_ANALYZE">>
      [] OTHER -> <<"VALIDATE_SYNTHESIZE">>

\* ------------------------------------------------------------ environment
\* topics a caller may pass: empty, white space only, and a proper one
Topics == {<<>>, <<" ">>, <<"A", "I">>}

\* reply texts of the LLM in a validation round
ApprovingReplies == {<<"a", "p", "p", "r", "o", "v", "e">>}

ValidationReplies == ApprovingReplies \cup {<<"R", "E", "D", "O">>}

\* tools the LLM may request (names as mounted, lines 189-194)
ToolNames ==
    {"search_search_web", "synthesizer_write_sota", "db_store_tool_results"}

\* text of a RateLimitError: two per-request size violations, one transient
RateLimitTexts == {"Request too large", "must be reduced", "Rate limit reached"}

\* result of a tool run, after _normalize_tool_result: write_sota answers
\* with the text of this invocation (synthesizer.py, line 91), and
\* db_store_tool_results with what it found in the transcript it was handed
\* (line 358; db_agent.py, lines 117-120)
tool_result(call, msgs) ==
    CASE call.name = "synthesizer_write_sota" ->
            Payload("dict", "Report body " \o ToString(call.id), Absent,
                    "completed")
      [] call.name = "db_store_tool_results" ->
            Payload("dict", Absent, Absent,
                    "count " \o ToString(Cardinality(
                        {k \in 1..Len(msgs) : msgs[k].role = "tool"})))
      [] OTHER -> Payload("dict", Absent, Absent, "results")

\* ------------------------------------------------------------------- state
VARIABLES
    pc,               \* where the run is
    entry,            \* "client" (call_produce_sota) or "api" (POST /api/sota)
    topic,            \* the topic the caller passed, then the one of the run
    keys_present,     \* OPENAI_API_KEY and SERPER_API_KEY are both set
    MAX_RETRIES,      \* utils.constants.MAX_RETRIES
    stage,            \* index in STAGES of the running run_pipeline_step call
    messages,         \* the transcript of run_llm_sota
    ctx,              \* caller of the chat call: "step", "save" or "validate"
    approved,         \* run_pipeline_step.approved
    number_of_tries,  \* run_pipeline_step.number_of_tries
    validator_calls,  \* calls of validate_step made by the running stage
    msg,              \* response.choices[0].message of the last chat call
    call_idx,         \* position in msg.tool_calls of the next request to run
    calls_issued,     \* tool-invocation requests placed so far (call ids)
    requests,         \* transcripts sent by the running chat call, in order
    error_message,    \* str(e) of the first RateLimitError of the chat call
    errors,           \* RateLimitErrors the running chat call has met
    rejections,       \* non-approving validation replies given so far
    slept,            \* seconds slept by the running chat call
    progress_queue,   \* orchestrator.progress_queue: None or "queue"
    queue,            \* progress_queues[task_id]: the items put so far
    task_status,      \* tasks[task_id]["status"], "" before the task exists
    cancelled_tasks,  \* task_id in cancelled_tasks
    result,           \* what run_llm_sota returned
    raised,           \* the exception that left run_llm_sota, "" if none
    max_messages,     \* the limit _trim_message_history is called with
    environ,          \* os.environ.get("SOTAFORGE_CHROMA_PATH"), "" if unset
    db_store,         \* path of the module-level ChromaStore of the agents
    tasks,            \* api.tasks and the frame of each run_sota_generation
    progress_queues,  \* api.progress_queues: the items put on each queue
    streamed,         \* the items each event_generator has taken so far
    chroma_dirs,      \* the store directories on disk and who wrote in them
    collections,      \* the documents of each collection of the store
    tool_call,        \* name and arguments of the agent tool that is running
    documents,        \* what db_store.fetch_documents returned to the tool
    parse_tasks,      \* the parse_document coroutines of asyncio.gather
    MAX_CONCURRENT_PARSING_REQUESTS,  \* utils.constants, absent from src/
    _parsing_semaphore,  \* free slots of parser_server._parsing_semaphore
    score_results,    \* what score_agent.run gave for each document
    tool_args,        \* the arguments _execute_tool_calls hands to the tool
    tool_return       \* what the tool returned, or the exception it raised

vars == <<pc, entry, topic, keys_present, MAX_RETRIES, stage, messages, ctx,
          approved, number_of_tries, validator_calls, msg, call_idx,
          calls_issued, requests, error_message, errors, rejections, slept,
          progress_queue, queue, task_status, cancelled_tasks, result, raised,
          max_messages, environ, db_store, tasks, progress_queues, streamed,
          chroma_dirs, collections, tool_call, documents, parse_tasks,
          MAX_CONCURRENT_PARSING_REQUESTS, _parsing_semaphore, score_results,
          tool_args, tool_return>>

run_vars == <<stage, messages, ctx, approved, number_of_tries, validator_calls,
              msg, call_idx, calls_issued, requests, error_message, errors,
              rejections, slept>>

\* the state of the API process when more than one task is posted
api_vars == <<environ, db_store, tasks, progress_queues, streamed, chroma_dirs>>

\* the state of an agent tool while it runs
tool_vars == <<collections, tool_call, documents, parse_tasks,
               MAX_CONCURRENT_PARSING_REQUESTS, _parsing_semaphore,
               score_results, tool_args, tool_return>>

env_vars == <<entry, keys_present, MAX_RETRIES, cancelled_tasks, max_messages,
              api_vars, tool_vars>>

\* one task only: the tables of the API process are not looked at
ApiIdle ==
    /\ environ = ""
    /\ db_store = ""
    /\ tasks = <<>>
    /\ progress_queues = <<>>
    /\ streamed = <<>>
    /\ chroma_dirs = <<>>

\* nothing returned, nothing raised
NoReturn == [status |-> "running", count |-> 0, results |-> <<>>,
             scored |-> <<>>]

\* the agent tools are looked at from outside only: their inner state rests
ToolIdle ==
    /\ collections = <<>>
    /\ tool_call = <<>>
    /\ documents = <<>>
    /\ parse_tasks = <<>>
    /\ MAX_CONCURRENT_PARSING_REQUESTS = 1
    /\ _parsing_semaphore = 1
    /\ score_results = <<>>
    /\ tool_args = <<>>
    /\ tool_return = NoReturn

NoMessage == [content |-> None, tool_calls |-> <<>>]

NoResult == [topic |-> <<>>, status |-> "", text |-> ""]

\* an item of the progress queue
Event(status, message, step, attempt) ==
    [status |-> status, message |-> message, step |-> step, attempt |-> attempt]

\* the end-of-stream item (queue.put(None))
Sentinel == Event("<None>", "", "", 0)

\* emit_progress: a no-op without a queue
emit_progress(q, status, message, step, attempt) ==
    IF progress_queue # "None"
    THEN Append(q, Event(status, message, step, attempt))
    ELSE q

Init ==
    /\ pc = "entry"
    /\ entry \in {"client", "api"}
    /\ topic \in Topics
    /\ keys_present \in BOOLEAN
    /\ MAX_RETRIES \in 1..MaxRetriesChoice
    /\ stage = 0
    /\ messages = <<>>
    /\ ctx = ""
    /\ approved = FALSE
    /\ number_of_tries = 1
    /\ validator_calls = 0
    /\ msg = NoMessage
    /\ call_idx = 1
    /\ calls_issued = 0
    /\ requests = <<>>
    /\ error_message = ""
    /\ errors = 0
    /\ rejections = 0
    /\ slept = 0
    /\ progress_queue = "None"
    /\ queue = <<>>
    /\ task_status = ""
    /\ cancelled_tasks = FALSE
    /\ result = NoResult
    /\ raised = ""
    /\ max_messages = FALLBACK_MAX_MESSAGES
    /\ ApiIdle
    /\ ToolIdle

\* ------------------------------------------------------------ orchestrator
\* tool_name.split("_")[0] of _emit_tool_progress, line 92
tool_step(name) ==
    CASE name = "search_search_web"     -> "search"
      [] name = "db_store_tool_results" -> "db"
      [] OTHER                          -> "synthesizer"

\* the message _emit_tool_progress emits for a tool, lines 96-101 and 178-179
tool_message(name) ==
    CASE name = "search_search_web"     -> "Searching web"
      [] name = "db_store_tool_results" -> "Saving results to database"
      [] OTHER                          -> "Writing SOTA summary"

\* tool_name == "synthesizer_write_sota" or tool_name.endswith("write_sota"),
\* on the tool names of the model
is_write_sota(name) == name \in {"synthesizer_write_sota", "write_sota"}

\* bool(v) and isinstance(v, str) of a JSON value
value_truthy(v) == v \notin {Absent, ""}

is_str(v) == v \notin {Absent, NonStr}

\* result.get("text") or result.get("sota"), line 406
text_or_sota(content) ==
    IF value_truthy(content[3]) THEN content[3] ELSE content[4]

\* a scan that stops only at a result whose status is 'completed'
ends_scan_if_completed(m) ==
    /\ m.role = "tool"
    /\ m.content # <<>>
    /\ m.content[1] # ""
    /\ is_write_sota(m.content[1])
    /\ m.content[2] = "dict"
    /\ is_str(text_or_sota(m.content))
    /\ m.content[5] = "completed"

\* the tests a turn passes to end the scan, lines 389-407: a tool turn whose
\* payload parses, names a write_sota tool and holds a dict with a string
ends_scan(m) ==
    /\ m.role = "tool"
    /\ m.content # <<>>
    /\ m.content[1] # ""
    /\ is_write_sota(m.content[1])
    /\ m.content[2] = "dict"
    /\ is_str(text_or_sota(m.content))

\* a scan that gives up at the first tool turn that does not match
RECURSIVE scan_last_tool_only(_, _)
scan_last_tool_only(msgs, k) ==
    IF k = 0 THEN ""
    ELSE IF ends_scan(msgs[k]) THEN text_or_sota(msgs[k].content)
    ELSE IF msgs[k].role = "tool" THEN ""
    ELSE scan_last_tool_only(msgs, k - 1)

\* the loop of lines 388-408 over reversed(messages), from turn k down
RECURSIVE scan_reversed(_, _)
scan_reversed(msgs, k) ==
    IF k = 0 THEN ""
    ELSE IF ends_scan(msgs[k]) THEN text_or_sota(msgs[k].content)
    ELSE scan_reversed(msgs, k - 1)

\* an extractor that answers None when it finds no report
extract_or_none(msgs) ==
    IF \E k \in 1..Len(msgs) : ends_scan(msgs[k])
    THEN scan_reversed(msgs, Len(msgs))
    ELSE Absent

\* _extract_synthesized_sota_text, lines 382-410
_extract_synthesized_sota_text(msgs) == scan_reversed(msgs, Len(msgs))

\* "Request too large" in error_message or "must be reduced" in error_message
size_violation(text) == text \in {"Request too large", "must be reduced"}

\* the tool the LLM asks for while stage i runs: write_sota in the synthesis
\* stage, as SYNTHESIZE_INSTRUCTION tells it; the web search of
\* SEARCH_INSTRUCTION stands for the tools of the stages before it
stage_tool(i) ==
    IF STAGES[i] = "synthesize" THEN "synthesizer_write_sota"
    ELSE "search_search_web"

\* the tool the LLM asks for in a round of stage i: in the save round
\* db_store_tool_results, as the SAVE_ instructions tell it
requested_tool(i, c) ==
    IF c = "save" THEN "db_store_tool_results" ELSE stage_tool(i)

\* the tool_calls lists a reply may carry in a round of stage i: at most
\* `room` requests, with the call ids first + 1, first + 2, ...
ToolCallLists(room, i, c) ==
    {[k \in 1..n |-> requested_tool(i, c)] : n \in 0..room}

tool_calls_of(names, first) ==
    [i \in 1..Len(names) |-> [id |-> first + i, name |-> names[i]]]

\* where control goes when the chat-and-execute round of a caller is over
after(c) ==
    CASE c = "step" -> "save"
      [] c = "save" -> "loop"
      [] OTHER      -> "validate_end"

\* run_llm_sota up to its first run_pipeline_step call, lines 474-489
run_llm_sota_begin(t) ==
    /\ topic' = t
    /\ messages' = <<SystemTurn("ORCHESTRATOR_SYSTEM_PROMPT")>>
    /\ stage' = 1
    /\ pc' = "step"

\* run_pipeline_step, lines 506-513: start event, stage instruction, and the
\* first request of the chat call (line 211)
run_pipeline_step ==
    /\ pc = "step"
    /\ approved' = FALSE
    /\ number_of_tries' = 1
    /\ validator_calls' = 0
    /\ queue' = emit_progress(queue, STAGES[stage], "Starting", STAGES[stage], 0)
    /\ messages' = Append(messages, UserTurn(step_instruction(stage, topic)))
    /\ ctx' = "step"
    /\ requests' = <<messages'>>
    /\ pc' = "chat_wait"
    /\ UNCHANGED <<env_vars, topic, stage, msg, call_idx, calls_issued,
                   error_message, errors, rejections, slept, progress_queue,
                   task_status, result, raised>>

\* run_pipeline_step, lines 515-520: the save round, skipped without
\* instruction; the first request of its chat call (line 211)
run_pipeline_step_save ==
    /\ pc = "save"
    /\ IF save_instruction(stage) # <<>>
       THEN /\ queue' = emit_progress(queue, STAGES[stage], "Saving",
                                      STAGES[stage], 0)
            /\ messages' = Append(messages, UserTurn(save_instruction(stage)))
            /\ ctx' = "save"
            /\ requests' = <<messages'>>
            /\ pc' = "chat_wait"
       ELSE /\ pc' = "loop"
            /\ UNCHANGED <<queue, messages, ctx, requests>>
    /\ UNCHANGED <<env_vars, topic, stage, approved, number_of_tries,
                   validator_calls, msg, call_idx, calls_issued,
                   error_message, errors, rejections, slept, progress_queue,
                   task_status, result, raised>>

\* the reply texts the LLM may give to the running chat call
Replies ==
    IF ctx # "validate" THEN {None}
    ELSE {r \in ValidationReplies :
             r \in ApprovingReplies \/ rejections < MaxRejections}

\* the request is answered: the caller appends the reply (lines 457-459 and
\* 430-432) and _execute_tool_calls starts on it
chat_reply ==
    /\ pc = "chat_wait"
    /\ \E content \in Replies,
          names \in ToolCallLists(MaxToolCalls - calls_issued, stage, ctx) :
          LET calls == tool_calls_of(names, calls_issued)
              rejected == ctx = "validate" /\ content \notin ApprovingReplies
          IN  /\ msg' = [content |-> content, tool_calls |-> calls]
              /\ rejections' = IF rejected THEN rejections + 1 ELSE rejections
              /\ messages' = Append(messages, AssistantTurn(content, calls))
              /\ calls_issued' = calls_issued + Len(calls)
              /\ pc' = IF calls = <<>> THEN after(ctx) ELSE "tools"
    /\ call_idx' = 1
    /\ requests' = <<>>
    /\ error_message' = ""
    /\ errors' = 0
    /\ slept' = 0
    /\ UNCHANGED <<env_vars, topic, stage, ctx, approved, number_of_tries,
                   validator_calls, progress_queue, queue, task_status, result,
                   raised>>

\* the handling of a RateLimitError on the first request, lines 217-226, 248-250
first_error_retries(text) == size_violation(text)

\* a handler whose fallback cuts the transcript of the run itself
chat_rate_limited_cuts_transcript ==
    /\ pc = "chat_wait"
    /\ \E text \in RateLimitTexts :
          /\ errors' = errors + 1
          /\ error_message' = IF errors = 0 THEN text ELSE error_message
          /\ IF \/ Len(requests) = 1 /\ first_error_retries(text)
                \/ Len(requests) = 2
             THEN /\ slept' = slept + COOLDOWN_SECONDS
                  /\ messages' =
                        IF Len(requests) = 1 THEN messages
                        ELSE _trim_message_history(messages,
                                                   FALLBACK_MAX_MESSAGES)
                  /\ requests' = Append(requests, messages')
                  /\ UNCHANGED <<pc, raised>>
             ELSE /\ pc' = "run_raised"
                  /\ raised' = "RateLimitError"
                  /\ UNCHANGED <<slept, requests, messages>>
    /\ UNCHANGED <<env_vars, topic, stage, ctx, approved,
                   number_of_tries, validator_calls, msg, call_idx,
                   calls_issued, rejections, progress_queue, queue,
                   task_status, result>>

\* the request fails with a RateLimitError, lines 217-250: the handler sleeps
\* and asks again with the transcript (226-228) or, after the second error,
\* with the trimmed one (239-242); otherwise the error leaves the call
chat_rate_limited ==
    /\ pc = "chat_wait"
    /\ \E text \in RateLimitTexts :
          /\ errors' = errors + 1
          /\ error_message' = IF errors = 0 THEN text ELSE error_message
          /\ IF \/ Len(requests) = 1 /\ first_error_retries(text)
                \/ Len(requests) = 2
             THEN /\ slept' = slept + COOLDOWN_SECONDS
                  /\ requests' =
                        Append(requests,
                               IF Len(requests) = 1 THEN messages
                               ELSE _trim_message_history(
                                       messages, FALLBACK_MAX_MESSAGES))
                  /\ UNCHANGED <<pc, raised>>
             ELSE /\ pc' = "run_raised"
                  /\ raised' = "RateLimitError"
                  /\ UNCHANGED <<slept, requests>>
    /\ UNCHANGED <<env_vars, topic, stage, messages, ctx, approved,
                   number_of_tries, validator_calls, msg, call_idx,
                   calls_issued, rejections, progress_queue, queue,
                   task_status, result>>

\* _execute_tool_calls, one pass of the loop of lines 340-378: progress event,
\* tool run, tool turn; an exception of the tool leaves run_llm_sota
execute_tool_call ==
    /\ pc = "tools"
    /\ LET call == msg.tool_calls[call_idx]
           q    == emit_progress(queue, tool_step(call.name),
                                 tool_message(call.name), tool_step(call.name),
                                 0)
       IN  /\ queue' = q
           /\ \/ /\ messages' = Append(messages,
                                       ToolTurn(call, tool_result(call, messages)))
                 /\ call_idx' = call_idx + 1
                 /\ pc' = IF call_idx = Len(msg.tool_calls)
                          THEN after(ctx) ELSE "tools"
                 /\ UNCHANGED raised
              \/ /\ pc' = "run_raised"
                 /\ raised' = "ToolError"
                 /\ UNCHANGED <<messages, call_idx>>
    /\ UNCHANGED <<env_vars, topic, stage, ctx, approved, number_of_tries,
                   validator_calls, msg, calls_issued, requests, error_message,
                   errors, rejections, slept,
                   progress_queue, task_status, result>>

\* the loop test of run_pipeline_step, line 522
loop_no_bound(a, n) == ~a

loop_continues(a, n) == ~a /\ n < MAX_RETRIES

\* framing turns that repeat the prompt of the run
validation_messages_reprompt(i) ==
    <<SystemTurn("ORCHESTRATOR_SYSTEM_PROMPT"), UserTurn(validation_prompt(i))>>

\* the two turns the other way round
validation_messages_user_first(i) ==
    <<UserTurn(validation_prompt(i)), SystemTurn("VALIDATION_PROMPT")>>

\* validation_messages of validate_step, lines 420-423, for stage i
validation_messages(i) ==
    <<SystemTurn("VALIDATION_PROMPT"), UserTurn(validation_prompt(i))>>

\* run_pipeline_step, lines 522-536, and validate_step, lines 420-428, with
\* the first request of its chat call (line 211)
validate_step ==
    /\ pc = "loop"
    /\ loop_continues(approved, number_of_tries)
    /\ queue' = emit_progress(queue, STAGES[stage], "Validating", STAGES[stage],
                              number_of_tries)
    /\ messages' = messages \o validation_messages(stage)
    /\ validator_calls' = validator_calls + 1
    /\ ctx' = "validate"
    /\ requests' = <<messages'>>
    /\ pc' = "chat_wait"
    /\ UNCHANGED <<env_vars, topic, stage, approved, number_of_tries, msg,
                   call_idx, calls_issued, error_message, errors,
                   rejections, slept,
                   progress_queue, task_status, result, raised>>

\* a verdict that a request for tools turns into a rejection
validate_step_return_unless_calls ==
    /\ pc = "validate_end"
    /\ approved' = (approved_of(msg.content) /\ msg.tool_calls = <<>>)
    /\ number_of_tries' = number_of_tries + 1
    /\ pc' = "loop"
    /\ UNCHANGED <<env_vars, topic, stage, messages, ctx, validator_calls, msg,
                   call_idx, calls_issued, requests, error_message, errors,
                   rejections, slept,
                   progress_queue, queue, task_status, result, raised>>

\* validate_step, lines 441-445, and run_pipeline_step, lines 534-537
validate_step_return ==
    /\ pc = "validate_end"
    /\ approved' = approved_of(msg.content)
    /\ number_of_tries' = number_of_tries + 1
    /\ pc' = "loop"
    /\ UNCHANGED <<env_vars, topic, stage, messages, ctx, validator_calls, msg,
                   call_idx, calls_issued, requests, error_message, errors,
                   rejections, slept,
                   progress_queue, queue, task_status, result, raised>>

run_pipeline_step_end_fatal ==
    /\ pc = "loop"
    /\ ~loop_continues(approved, number_of_tries)
    /\ queue' = emit_progress(queue, STAGES[stage],
                              IF approved THEN "completed successfully"
                              ELSE "completed with warnings",
                              STAGES[stage], 0)
    /\ IF ~approved
       THEN stage' = stage /\ pc' = "run_raised" /\ raised' = "NotApproved"
       ELSE /\ raised' = raised
            /\ IF stage < Len(STAGES)
               THEN stage' = stage + 1 /\ pc' = "step"
               ELSE stage' = stage /\ pc' = "return"
    /\ UNCHANGED <<env_vars, topic, messages, ctx, approved, number_of_tries,
                   validator_calls, msg, call_idx, calls_issued, requests,
                   error_message, errors, rejections, slept, progress_queue,
                   task_status, result>>

run_pipeline_step_end_skip ==
    /\ pc = "loop"
    /\ ~loop_continues(approved, number_of_tries)
    /\ queue' = emit_progress(queue, STAGES[stage],
                              IF approved THEN "completed successfully"
                              ELSE "completed with warnings",
                              STAGES[stage], 0)
    /\ IF stage + 1 < Len(STAGES)
       THEN stage' = stage + 2 /\ pc' = "step"
       ELSE stage' = stage /\ pc' = "return"
    /\ UNCHANGED <<env_vars, topic, messages, ctx, approved, number_of_tries,
                   validator_calls, msg, call_idx, calls_issued, requests,
                   error_message, errors, rejections, slept, progress_queue,
                   task_status, result, raised>>

\* run_pipeline_step, lines 539-553: the terminal event; run_llm_sota then
\* makes its next run_pipeline_step call, or goes on to line 595
run_pipeline_step_end ==
    /\ pc = "loop"
    /\ ~loop_continues(approved, number_of_tries)
    /\ queue' = emit_progress(queue, STAGES[stage],
                              IF approved THEN "completed successfully"
                              ELSE "completed with warnings",
                              STAGES[stage], 0)
    /\ IF stage < Len(STAGES)
       THEN stage' = stage + 1 /\ pc' = "step"
       ELSE stage' = stage /\ pc' = "return"
    /\ UNCHANGED <<env_vars, topic, messages, ctx, approved, number_of_tries,
                   validator_calls, msg, call_idx, calls_issued, requests,
                   error_message, errors, rejections, slept, progress_queue,
                   task_status, result, raised>>

\* run_llm_sota, lines 595-604
run_llm_sota_return ==
    /\ pc = "return"
    /\ result' = [topic |-> topic, status |-> "completed",
                  text |-> _extract_synthesized_sota_text(messages)]
    /\ pc' = "run_returned"
    /\ UNCHANGED <<env_vars, topic, run_vars, progress_queue, queue,
                   task_status, raised>>

\* ------------------------------------------------------------ entry points
\* client.call_produce_sota, lines 29-37
call_produce_sota ==
    /\ pc = "entry"
    /\ entry = "client"
    /\ IF topic = <<>> \/ strip(topic) = <<>>
       THEN /\ pc' = "rejected"
            /\ raised' = "ValueError"
            /\ UNCHANGED <<topic, messages, stage>>
       ELSE /\ run_llm_sota_begin(strip(topic))
            /\ UNCHANGED raised
    /\ UNCHANGED <<env_vars, ctx, approved, number_of_tries, validator_calls,
                   msg, call_idx, calls_issued, requests, error_message,
                   errors, rejections, slept,
                   progress_queue, queue, task_status, result>>

\* client.call_produce_sota, line 38
call_produce_sota_return ==
    /\ pc = "run_returned"
    /\ entry = "client"
    /\ pc' = "finished"
    /\ UNCHANGED <<env_vars, topic, run_vars, progress_queue, queue,
                   task_status, result, raised>>

\* SOTARequest validation (min_length) and api.generate_sota, lines 106-131
generate_sota ==
    /\ pc = "entry"
    /\ entry = "api"
    /\ IF Len(topic) < TOPIC_MIN_LENGTH
       THEN /\ pc' = "rejected"
            /\ raised' = "422"
            /\ UNCHANGED task_status
       ELSE /\ pc' = "background"
            /\ task_status' = "pending"
            /\ UNCHANGED raised
    /\ UNCHANGED <<env_vars, topic, run_vars, progress_queue, queue, result>>

\* items run_sota_generation puts before the preflight, lines 147-168
InitEvents ==
    <<Event("initializing", "Initializing", "initializing", 0),
      Event("initializing", "Setting up database", "initializing", 0)>>

\* items run_sota_generation puts between preflight and run, lines 187-249
LoadEvents ==
    <<Event("loading", "Verifying API credentials", "loading", 0),
      Event("loading", "Loading MCP agent modules", "loading", 0),
      Event("loading", "Configuring orchestrator", "loading", 0),
      Event("running", "All systems ready", "running", 0)>>

\* api.run_sota_generation, lines 142-252: up to the call of run_llm_sota
run_sota_generation ==
    /\ pc = "background"
    /\ IF keys_present
       THEN /\ queue' = queue \o InitEvents \o LoadEvents
            /\ progress_queue' = "queue"
            /\ run_llm_sota_begin(topic)
            /\ UNCHANGED task_status
       ELSE /\ queue' = (queue \o InitEvents)
                           \o <<Event("failed", "Missing keys", "", 0), Sentinel>>
            /\ task_status' = "failed"
            /\ pc' = "finished"
            /\ UNCHANGED <<progress_queue, topic, messages, stage>>
    /\ UNCHANGED <<env_vars, ctx, approved, number_of_tries, validator_calls,
                   msg, call_idx, calls_issued, requests, error_message,
                   errors, rejections, slept, result,
                   raised>>

\* api.run_sota_generation, lines 254-264 and 272-284: run_llm_sota returned
run_sota_generation_completed ==
    /\ pc = "run_returned"
    /\ entry = "api"
    /\ task_status' = "completed"
    /\ queue' = queue \o <<Event("completed", "SOTA generation completed", "", 0),
                           Sentinel>>
    /\ pc' = "finished"
    /\ UNCHANGED <<env_vars, topic, run_vars, progress_queue, result, raised>>

\* api.run_sota_generation, lines 266-284: run_llm_sota raised
run_sota_generation_failed ==
    /\ pc = "run_raised"
    /\ entry = "api"
    /\ task_status' = "failed"
    /\ queue' = queue \o <<Event("failed", "Failed to generate SOTA", "", 0),
                           Sentinel>>
    /\ pc' = "finished"
    /\ UNCHANGED <<env_vars, topic, run_vars, progress_queue, result, raised>>

\* ------------------------------------------------------------ specification
Next ==
    \/ call_produce_sota
    \/ call_produce_sota_return
    \/ generate_sota
    \/ run_sota_generation
    \/ run_sota_generation_completed
    \/ run_sota_generation_failed
    \/ run_pipeline_step
    \/ run_pipeline_step_save
    \/ chat_reply
    \/ chat_rate_limited
    \/ execute_tool_call
    \/ validate_step
    \/ validate_step_return
    \/ run_pipeline_step_end
    \/ run_llm_sota_return

Spec == Init /\ [][Next]_vars

\* ------------------------------------------------------------ cancellation
\* DELETE /api/sota/{task_id}: flag the task and mark it cancelled
cancel_sota ==
    /\ task_status = "pending"
    /\ pc # "finished"
    /\ ~cancelled_tasks
    /\ cancelled_tasks' = TRUE
    /\ task_status' = "cancelled"
    /\ UNCHANGED <<pc, entry, topic, keys_present, MAX_RETRIES, max_messages,
                   api_vars, tool_vars, run_vars,
                   progress_queue, queue, result, raised>>

\* the places where a run looks at the cancellation flag: before the run
\* starts and before each stage starts
boundary_anywhere(p) == p \notin {"entry", "rejected", "finished"}

at_stage_boundary(p) == p \in {"background", "step"}

\* the run sees the flag at a stage boundary and stops
stop_cancelled ==
    /\ at_stage_boundary(pc)
    /\ cancelled_tasks
    /\ task_status' = "cancelled"
    /\ queue' = queue \o <<Event("cancelled", "Task cancelled", "", 0), Sentinel>>
    /\ pc' = "finished"
    /\ UNCHANGED <<env_vars, topic, run_vars, progress_queue, result, raised>>

\* run_sota_generation and run_pipeline_step behind the check of the flag
run_sota_generation_unless_cancelled ==
    /\ ~cancelled_tasks
    /\ run_sota_generation

run_pipeline_step_unless_cancelled ==
    /\ ~cancelled_tasks
    /\ run_pipeline_step

InitCancel ==
    /\ Init
    /\ entry = "api"
    /\ keys_present

NextCancel ==
    \/ generate_sota
    \/ cancel_sota
    \/ stop_cancelled
    \/ run_sota_generation_unless_cancelled
    \/ run_sota_generation_completed
    \/ run_sota_generation_failed
    \/ run_pipeline_step_unless_cancelled
    \/ run_pipeline_step_save
    \/ chat_reply
    \/ chat_rate_limited
    \/ execute_tool_call
    \/ validate_step
    \/ validate_step_return
    \/ run_pipeline_step_end
    \/ run_llm_sota_return

SpecCancel == InitCancel /\ [][NextCancel]_vars

\* ------------------------------------------------- the verdict on its own
Concat3(a, b, c) == a \o b \o c

LeadingTexts == {<<>>, <<" ">>, <<"\n", " ">>, <<"x", " ">>}

CoreTexts ==
    {APPROVE, <<"a", "p", "p", "r", "o", "v", "e">>,
     <<"A", "p", "p", "r", "o", "v", "e">>, <<"A", "P", "P", "R", "O", "V">>,
     <<"a", "p", "p", "r", "o", "v", "e", "d">>, <<"R", "E", "D", "O">>, <<>>}

TrailingTexts ==
    {<<>>, <<" ">>,
     <<":", " ", "l", "o", "o", "k", "s", " ", "g", "o", "o", "d">>,
     <<":", " ", "n", "e", "e", "d", "s", " ", "w", "o", "r", "k">>}

\* the contents msg.content is drawn from: None and texts around APPROVE
ReplyContents ==
    {None} \cup {Concat3(a, b, c) : a \in LeadingTexts, b \in CoreTexts,
                                    c \in TrailingTexts}

\* validate_step has the reply of the chat call in hand
InitValidate ==
    /\ pc = "validate_end"
    /\ entry = "client"
    /\ topic = <<"A", "I">>
    /\ keys_present = TRUE
    /\ MAX_RETRIES \in 2..MaxRetriesChoice
    /\ stage = 1
    /\ messages = <<>>
    /\ ctx = "validate"
    /\ approved = FALSE
    /\ number_of_tries = 1
    /\ validator_calls = 1
    /\ msg \in [content : ReplyContents, tool_calls : {<<>>}]
    /\ call_idx = 1
    /\ calls_issued = 0
    /\ requests = <<>>
    /\ error_message = ""
    /\ errors = 0
    /\ rejections = 0
    /\ slept = 0
    /\ progress_queue = "None"
    /\ queue = <<>>
    /\ task_status = ""
    /\ cancelled_tasks = FALSE
    /\ result = NoResult
    /\ raised = ""
    /\ max_messages = FALLBACK_MAX_MESSAGES
    /\ ApiIdle
    /\ ToolIdle

NextValidate == validate_step_return

SpecValidate == InitValidate /\ [][NextValidate]_vars

\* ------------------------------------------------- the final extraction
\* longest transcript the extraction is tried on
MaxExtractLen == 3

\* synthesizer_server.write_sota, lines 31-91: the result for the documents
\* of the collection and the text the model wrote from them
write_sota(docs, content) ==
    IF docs = <<>>
    THEN Payload("dict", "No documents found in collection", Absent, "error")
    ELSE Payload("dict",
                 IF content = "" THEN "No summary generated." ELSE content,
                 Absent, "completed")

\* the tool turns of those transcripts: a payload that does not parse, one
\* without a tool name, one of another tool, write_sota results of every
\* shape under both names, and the result of write_sota on an empty
\* collection
ExtractToolTurns ==
    {Turn("tool", <<>>, <<>>, 1),
     ToolTurn([id |-> 1, name |-> ""], Payload("dict", "B", Absent, "")),
     ToolTurn([id |-> 1, name |-> "search_search_web"],
              Payload("dict", "B", Absent, "results"))}
    \cup {ToolTurn([id |-> 1, name |-> n], Payload("dict", t, u, "")) :
             n \in {"synthesizer_write_sota", "write_sota"},
             t \in {Absent, "", "A", "B", NonStr},
             u \in {Absent, "S"}}
    \cup {ToolTurn([id |-> 1, name |-> n], Payload("list", Absent, Absent, "")) :
             n \in {"synthesizer_write_sota", "write_sota"}}
    \cup {ToolTurn([id |-> 1, name |-> "synthesizer_write_sota"],
                    write_sota(<<>>, ""))}

ExtractTurns ==
    {UserTurn(<<"VALIDATE_SYNTHESIZE">>), AssistantTurn(None, <<>>)}
        \cup ExtractToolTurns

\* run_llm_sota has run its five stages, on any such transcript
InitExtract ==
    /\ pc = "return"
    /\ entry = "client"
    /\ topic = <<"A", "I">>
    /\ keys_present = TRUE
    /\ MAX_RETRIES = 1
    /\ stage = Len(STAGES)
    /\ messages \in UNION {[1..n -> ExtractTurns] : n \in 0..MaxExtractLen}
    /\ ctx = "validate"
    /\ approved = FALSE
    /\ number_of_tries = 1
    /\ validator_calls = 0
    /\ msg = NoMessage
    /\ call_idx = 1
    /\ calls_issued = 0
    /\ requests = <<>>
    /\ error_message = ""
    /\ errors = 0
    /\ rejections = 0
    /\ slept = 0
    /\ progress_queue = "None"
    /\ queue = <<>>
    /\ task_status = ""
    /\ cancelled_tasks = FALSE
    /\ result = NoResult
    /\ raised = ""
    /\ max_messages = FALLBACK_MAX_MESSAGES
    /\ ApiIdle
    /\ ToolIdle

NextExtract == run_llm_sota_return

SpecExtract == InitExtract /\ [][NextExtract]_vars

\* ------------------------------------------------------------ trimming
\* longest transcript, and largest limit, _trim_message_history is tried on
MaxTrimLen == 5

MaxLimit == 4

\* limits: negative, zero, and up to MaxLimit
Limits == -1..MaxLimit

\* the turns of those transcripts: user and assistant turns, assistant
\* turns with one and with two requests, and the tool turns that answer them
TrimCalls == [i \in 1..2 |-> [id |-> i, name |-> "search_search_web"]]

TrimTurns ==
    {UserTurn(<<"VALIDATE_SEARCH">>),
     AssistantTurn(None, <<>>),
     AssistantTurn(None, <<TrimCalls[1]>>),
     AssistantTurn(None, TrimCalls),
     ToolTurn(TrimCalls[1], Payload("dict", Absent, Absent, "results")),
     ToolTurn(TrimCalls[2], Payload("dict", Absent, Absent, "results"))}

\* _trim_message_history is about to be called on any such transcript
InitTrim ==
    /\ pc = "trim"
    /\ entry = "client"
    /\ topic = <<"A", "I">>
    /\ keys_present = TRUE
    /\ MAX_RETRIES = 1
    /\ stage = 1
    /\ messages \in UNION {[1..n -> TrimTurns] : n \in 0..MaxTrimLen}
    /\ ctx = "validate"
    /\ approved = FALSE
    /\ number_of_tries = 1
    /\ validator_calls = 0
    /\ msg = NoMessage
    /\ call_idx = 1
    /\ calls_issued = 0
    /\ requests = <<>>
    /\ error_message = ""
    /\ errors = 0
    /\ rejections = 0
    /\ slept = 0
    /\ progress_queue = "None"
    /\ queue = <<>>
    /\ task_status = ""
    /\ cancelled_tasks = FALSE
    /\ result = NoResult
    /\ raised = ""
    /\ max_messages \in Limits
    /\ ApiIdle
    /\ ToolIdle

\* the call _trim_message_history(messages, max_messages), and a second call
\* on what the first returned; `requests` keeps what the calls returned
trim_call ==
    /\ pc = "trim"
    /\ requests' = Append(requests,
                          _trim_message_history(
                             IF requests = <<>> THEN messages
                             ELSE requests[Len(requests)],
                             max_messages))
    /\ pc' = IF requests = <<>> THEN "trim" ELSE "trimmed"
    /\ UNCHANGED <<env_vars, topic, stage, messages, ctx, approved,
                   number_of_tries, validator_calls, msg, call_idx,
                   calls_issued, error_message, errors, rejections, slept,
                   progress_queue, queue, task_status, result, raised>>

NextTrim == trim_call

SpecTrim == InitTrim /\ [][NextTrim]_vars

\* ----------------------------------------------------- overlapping runs
\* the tasks posted to the API process
TaskIds == {"t1", "t2"}

\* suspension points of run_llm_sota a run goes through (chat and tool calls)
MaxRunSteps == 2

\* tempfile.mkdtemp(prefix="sotaforge_sota_"): a fresh directory per call
mkdtemp(t) == "sotaforge_sota_" \o t

\* all the variables of the one-run model at rest, apart from pc and
\* progress_queue
RunAtRest ==
    /\ entry = "api"
    /\ topic = <<"A", "I">>
    /\ MAX_RETRIES = 1
    /\ stage = 0
    /\ messages = <<>>
    /\ ctx = ""
    /\ approved = FALSE
    /\ number_of_tries = 1
    /\ validator_calls = 0
    /\ msg = NoMessage
    /\ call_idx = 1
    /\ calls_issued = 0
    /\ requests = <<>>
    /\ error_message = ""
    /\ errors = 0
    /\ rejections = 0
    /\ slept = 0
    /\ queue = <<>>
    /\ task_status = ""
    /\ cancelled_tasks = FALSE
    /\ result = NoResult
    /\ raised = ""
    /\ max_messages = FALLBACK_MAX_MESSAGES

\* a task nobody has posted yet
NoTask ==
    [status |-> "", at |-> "none", temp_chroma_dir |-> "",
     previous_chroma_path |-> "", steps |-> 0, used |-> {}, read |-> {},
     emitted |-> <<>>]

\* the API process has just started: no agent module is imported, no task
InitOverlap ==
    /\ pc = "serving"
    /\ progress_queue = "None"
    /\ RunAtRest
    /\ keys_present \in BOOLEAN
    /\ environ = ""
    /\ db_store = ""
    /\ tasks = [t \in TaskIds |-> NoTask]
    /\ progress_queues = [t \in TaskIds |-> <<>>]
    /\ streamed = [t \in TaskIds |-> <<>>]
    /\ chroma_dirs = <<>>
    /\ ToolIdle

\* a directory and what it holds: the tasks whose tool calls wrote documents
MakeDir(dirs, path) == [d \in DOMAIN dirs \cup {path} |->
                           IF d \in DOMAIN dirs THEN dirs[d] ELSE {}]

\* shutil.rmtree(path, ignore_errors=True)
rmtree(dirs, path) == [d \in DOMAIN dirs \ {path} |-> dirs[d]]

\* POST /api/sota, lines 120-131: queue and task entry, run left for later
post_sota(t) ==
    /\ tasks[t].at = "none"
    /\ tasks' = [tasks EXCEPT ![t].status = "pending", ![t].at = "background"]
    /\ UNCHANGED <<pc, entry, topic, keys_present, MAX_RETRIES, max_messages,
                   cancelled_tasks, tool_vars, run_vars, progress_queue, queue,
                   task_status, result, raised, environ, db_store,
                   progress_queues, streamed, chroma_dirs>>

\* what run_sota_generation puts on its own queue before the pipeline starts
StartEvents(t) ==
    <<Event("initializing", t, "initializing", 0),
      Event("loading", t, "loading", 0),
      Event("running", t, "running", 0)>>

\* run_sota_generation from its first line to the first suspension inside
\* run_llm_sota, lines 142-249: none of the awaits on the way suspends (the
\* queue is unbounded), so the directory, the environment variable, the
\* reload of the agent modules (their stores open the path of the variable)
\* and the injection of the queue happen in one go
start_sota_generation(t) ==
    /\ tasks[t].at = "background"
    /\ keys_present
    /\ tasks' = [tasks EXCEPT ![t].at = "pipeline",
                              ![t].temp_chroma_dir = mkdtemp(t),
                              ![t].previous_chroma_path = environ,
                              ![t].emitted = StartEvents(t)]
    /\ chroma_dirs' = MakeDir(chroma_dirs, mkdtemp(t))
    /\ environ' = mkdtemp(t)
    /\ db_store' = mkdtemp(t)
    /\ progress_queue' = t
    /\ progress_queues' = [progress_queues EXCEPT
                              ![t] = progress_queues[t] \o StartEvents(t)]
    /\ UNCHANGED <<pc, entry, topic, keys_present, MAX_RETRIES, max_messages,
                   cancelled_tasks, tool_vars, run_vars, queue, task_status, result,
                   raised, streamed>>

\* the queue emit_progress puts on: the module global of the orchestrator,
\* whichever run calls it
emit_to(qs, event) ==
    IF progress_queue = "None" THEN qs
    ELSE [qs EXCEPT ![progress_queue] = Append(qs[progress_queue], event)]

\* the end of run_sota_generation, lines 253-284: status, last event on the
\* queue of the task, removal of its directory, the variable put back,
\* end-of-stream item
end_without_sentinel(t, status) == <<Event(status, t, "", 0)>>

EndEvents(t, status) == <<Event(status, t, "", 0), Sentinel>>

\* the variable after the finally block, lines 278-281
restored(prev) == prev

\* run_sota_generation with a key missing, lines 142-185 and 271-284: the
\* first events, the failed event and status, the return out of the try
\* block, and the finally block: the directory made at line 143 is removed,
\* the variable (not yet assigned) is put back, end-of-stream item; the
\* queue is not yet injected into the orchestrator
start_sota_generation_missing_keys(t) ==
    /\ tasks[t].at = "background"
    /\ ~keys_present
    /\ LET first == <<Event("initializing", t, "initializing", 0)>>
       IN  /\ tasks' = [tasks EXCEPT ![t].at = "done",
                                     ![t].status = "failed",
                                     ![t].temp_chroma_dir = mkdtemp(t),
                                     ![t].previous_chroma_path = environ,
                                     ![t].emitted = Append(first,
                                                      Event("failed", t, "", 0))]
           /\ progress_queues' = [progress_queues EXCEPT
                                     ![t] = (@ \o first) \o EndEvents(t, "failed")]
    /\ chroma_dirs' = rmtree(MakeDir(chroma_dirs, mkdtemp(t)), mkdtemp(t))
    /\ environ' = restored(environ)
    /\ UNCHANGED <<pc, entry, topic, keys_present, MAX_RETRIES, max_messages,
                   cancelled_tasks, tool_vars, run_vars, progress_queue, queue,
                   task_status, result, raised, db_store, streamed>>

\* a run resumes at a suspension point of run_llm_sota and the orchestrator
\* raises: the except block of run_sota_generation, lines 266-270, then the
\* finally block, lines 271-284
pipeline_raise(t) ==
    /\ tasks[t].at = "pipeline"
    /\ tasks' = [tasks EXCEPT ![t].at = "done",
                              ![t].status = "failed",
                              ![t].emitted = Append(@, Event("failed", t, "", 0))]
    /\ progress_queues' = [progress_queues EXCEPT
                              ![t] = @ \o EndEvents(t, "failed")]
    /\ chroma_dirs' = rmtree(chroma_dirs, tasks[t].temp_chroma_dir)
    /\ environ' = restored(tasks[t].previous_chroma_path)
    /\ UNCHANGED <<pc, entry, topic, keys_present, MAX_RETRIES, max_messages,
                   cancelled_tasks, tool_vars, run_vars, progress_queue, queue,
                   task_status, result, raised, db_store, streamed>>

\* a run resumes at a suspension point of run_llm_sota: it emits a progress
\* event and runs a tool on the store of the agent modules; after the last
\* one run_llm_sota returns and run_sota_generation runs to its end
pipeline_step(t) ==
    /\ tasks[t].at = "pipeline"
    /\ LET n      == tasks[t].steps + 1
           ev     == Event("running", t, "step", n)
           there  == db_store \in DOMAIN chroma_dirs
           last   == n = MaxRunSteps
           put    == emit_to(progress_queues, ev)
           wrote  == IF there
                     THEN [chroma_dirs EXCEPT ![db_store] = @ \cup {t}]
                     ELSE chroma_dirs
       IN  /\ tasks' = [tasks EXCEPT
                ![t].steps = n,
                ![t].used = @ \cup {db_store},
                ![t].read = IF there THEN @ \cup chroma_dirs[db_store] ELSE @,
                ![t].emitted = IF last
                               THEN Append(@, ev) \o <<Event("completed", t, "", 0)>>
                               ELSE Append(@, ev),
                ![t].status = IF last THEN "completed" ELSE @,
                ![t].at = IF last THEN "done" ELSE @]
           /\ progress_queues' =
                 IF last
                 THEN [put EXCEPT ![t] = @ \o EndEvents(t, "completed")]
                 ELSE put
           /\ chroma_dirs' =
                 IF last THEN rmtree(wrote, tasks[t].temp_chroma_dir)
                 ELSE wrote
           /\ environ' =
                 IF last THEN restored(tasks[t].previous_chroma_path)
                 ELSE environ
    /\ UNCHANGED <<pc, entry, topic, keys_present, MAX_RETRIES, max_messages,
                   cancelled_tasks, tool_vars, run_vars, progress_queue, queue,
                   task_status, result, raised, db_store, streamed>>

\* event_generator of GET /api/sota/stream/{task_id}, lines 318-339: the
\* next item of the queue of the task, until the end-of-stream item
event_generator(t) ==
    /\ tasks[t].at # "none"
    /\ Len(streamed[t]) < Len(progress_queues[t])
    /\ \A k \in 1..Len(streamed[t]) : streamed[t][k] # Sentinel
    /\ streamed' = [streamed EXCEPT
                       ![t] = Append(@, progress_queues[t][Len(@) + 1])]
    /\ UNCHANGED <<pc, entry, topic, keys_present, MAX_RETRIES, max_messages,
                   cancelled_tasks, tool_vars, run_vars, progress_queue, queue,
                   task_status, result, raised, environ, db_store, tasks,
                   progress_queues, chroma_dirs>>

NextOverlap ==
    \E t \in TaskIds :
       \/ post_sota(t)
       \/ start_sota_generation(t)
       \/ start_sota_generation_missing_keys(t)
       \/ pipeline_step(t)
       \/ pipeline_raise(t)
       \/ event_generator(t)

SpecOverlap == InitOverlap /\ [][NextOverlap]_vars

\* ------------------------------------------------------- parser, analyzer
\* collection names the LLM may pass to a tool
CollectionNames == {"filtered", "parsed"}

\* most documents in a source collection
MaxDocs == 3

\* largest value tried for MAX_CONCURRENT_PARSING_REQUESTS
MaxConcurrentChoice == 2

\* a document as the tools see it: its class, and the fields they look at
Doc(class, title, source_type, text, themes) ==
    [class |-> class, title |-> title, source_type |-> source_type,
     text |-> text, themes |-> themes]

NoDoc == Doc("", "", "", "", "")

\* what db_store.fetch_documents may hand to a tool: documents not parsed
\* yet, a parsed one, a plain dict, and an object of no document class
SourceDocs ==
    {Doc("NotParsedDocument", "d1", "web", "", ""),
     Doc("NotParsedDocument", "d2", "paper", "", ""),
     Doc("ParsedDocument", "d3", "web", "full text", ""),
     Doc("dict", "d4", "unknown", "", ""),
     Doc("object", "d5", "", "", "")}

\* ChromaStore.fetch_documents and upsert_documents as the tools use them:
\* the documents of a collection in order; new entries under fresh ids, and
\* nothing at all for an empty list (db.py 83-85)
fetch_documents(cols, name) == cols[name]

\* a store whose ids come from the documents: a document stored again
\* takes the place of its entry
upsert_documents_per_document(cols, name, docs) ==
    IF docs = <<>> THEN cols
    ELSE [cols EXCEPT ![name] =
             SelectSeq(@, LAMBDA e : \A j \in DOMAIN docs :
                                        docs[j].title # e.title) \o docs]

upsert_documents(cols, name, docs) ==
    IF docs = <<>> THEN cols ELSE [cols EXCEPT ![name] = @ \o docs]

\* a tool of the parser or the analyzer is called with two collection names
InitParse ==
    /\ pc = "tool_call"
    /\ progress_queue = "None"
    /\ RunAtRest
    /\ keys_present = TRUE
    /\ ApiIdle
    /\ tool_call \in [name : {"parse_documents", "analyze_documents"},
                      source : CollectionNames,
                      destination : CollectionNames]
    /\ \E docs \in UNION {[1..n -> SourceDocs] : n \in 0..MaxDocs} :
          collections = [c \in CollectionNames |->
                            IF c = tool_call.source THEN docs ELSE <<>>]
    /\ documents = <<>>
    /\ parse_tasks = <<>>
    /\ MAX_CONCURRENT_PARSING_REQUESTS \in 1..MaxConcurrentChoice
    /\ _parsing_semaphore = MAX_CONCURRENT_PARSING_REQUESTS
    /\ score_results = <<>>
    /\ tool_args = <<>>
    /\ tool_return = NoReturn

Returned(count, results) ==
    [status |-> "returned", count |-> count, results |-> results,
     scored |-> <<>>]

Raised(exception) ==
    [status |-> exception, count |-> 0, results |-> <<>>, scored |-> <<>>]

parse_unchanged ==
    UNCHANGED <<entry, keys_present, MAX_RETRIES, cancelled_tasks,
                max_messages, api_vars, topic, run_vars, progress_queue,
                queue, task_status, result, raised, tool_call,
                MAX_CONCURRENT_PARSING_REQUESTS, score_results, tool_args>>

\* parse_documents up to asyncio.gather, lines 41-110: the documents are
\* fetched; none: the call returns; else one parse_document coroutine each
parse_documents ==
    /\ pc = "tool_call"
    /\ tool_call.name = "parse_documents"
    /\ LET docs == fetch_documents(collections, tool_call.source)
       IN  /\ documents' = docs
           /\ IF docs = <<>>
              THEN /\ tool_return' = Returned(0, <<>>)
                   /\ pc' = "tool_returned"
                   /\ parse_tasks' = <<>>
              ELSE /\ parse_tasks' = [i \in 1..Len(docs) |->
                                         [at |-> "waiting", parser |-> "",
                                          doc |-> NoDoc]]
                   /\ pc' = "gather"
                   /\ UNCHANGED tool_return
    /\ UNCHANGED <<collections, _parsing_semaphore>>
    /\ parse_unchanged

\* a semaphore whose acquire never waits
always_free(value) == TRUE

\* asyncio.Semaphore.acquire goes through when a slot is free
free_slot(value) == value > 0

\* the classes parse_document sends to a parser, lines 75-85
to_parse(doc) == doc.class \in {"NotParsedDocument", "dict"}

\* parse_document from `async with` to its first suspension, lines 73-91:
\* the coroutines take the semaphore in the order gather started them; a
\* parsed document leaves at once, an unsupported one raises, the others
\* wait for their parser inside the section
parse_document_enter(i) ==
    /\ pc \in {"gather", "tool_raised"}
    /\ i \in 1..Len(parse_tasks)
    /\ parse_tasks[i].at = "waiting"
    /\ \A j \in 1..i - 1 : parse_tasks[j].at # "waiting"
    /\ free_slot(_parsing_semaphore)
    /\ LET doc == documents[i]
       IN  IF to_parse(doc)
           THEN /\ parse_tasks' = [parse_tasks EXCEPT ![i].at = "inside"]
                /\ _parsing_semaphore' = _parsing_semaphore - 1
           ELSE /\ parse_tasks' =
                      [parse_tasks EXCEPT
                          ![i] = IF doc.class = "ParsedDocument"
                                 THEN [at |-> "done", parser |-> "",
                                       doc |-> doc]
                                 ELSE [at |-> "raised", parser |-> "",
                                       doc |-> NoDoc]]
                /\ UNCHANGED _parsing_semaphore
    /\ UNCHANGED <<pc, collections, documents, tool_return>>
    /\ parse_unchanged

\* a failed parse loses the document
parsed_or_nothing(doc, ok) ==
    IF ok
    THEN Doc("ParsedDocument", doc.title, doc.source_type,
             "text of " \o doc.title, "")
    ELSE NoDoc

\* what parse_document returns for a document sent to a parser, lines
\* 87-101: the parsed document, or the document with the fallback text
parsed_or_fallback(doc, ok) ==
    Doc("ParsedDocument", doc.title, doc.source_type,
        IF ok THEN "text of " \o doc.title ELSE "Failed to parse content.",
        "")

\* the parser of a document returns or raises, and parse_document leaves
\* the section
parse_document_leave(i) ==
    /\ pc \in {"gather", "tool_raised"}
    /\ i \in 1..Len(parse_tasks)
    /\ parse_tasks[i].at = "inside"
    /\ \E ok \in BOOLEAN :
          parse_tasks' = [parse_tasks EXCEPT
                             ![i] = [at |-> "done",
                                     parser |-> IF ok THEN "returned"
                                                ELSE "raised",
                                     doc |-> parsed_or_fallback(documents[i],
                                                                ok)]]
    /\ _parsing_semaphore' = _parsing_semaphore + 1
    /\ UNCHANGED <<pc, collections, documents, tool_return>>
    /\ parse_unchanged

\* the results of gather, in the order of the coroutines
gathered == [i \in 1..Len(parse_tasks) |-> parse_tasks[i].doc]

\* gather has all its results, lines 110-122: they are stored and returned
parse_documents_return ==
    /\ pc = "gather"
    /\ \A i \in 1..Len(parse_tasks) : parse_tasks[i].at = "done"
    /\ collections' = upsert_documents(collections, tool_call.destination,
                                       gathered)
    /\ tool_return' = Returned(Len(gathered), gathered)
    /\ pc' = "tool_returned"
    /\ UNCHANGED <<documents, parse_tasks, _parsing_semaphore>>
    /\ parse_unchanged

\* a coroutine raised ParsingError: gather hands it to parse_documents,
\* which has no handler; the other coroutines go on
parse_documents_raise ==
    /\ pc = "gather"
    /\ \E i \in 1..Len(parse_tasks) : parse_tasks[i].at = "raised"
    /\ tool_return' = Raised("ParsingError")
    /\ pc' = "tool_raised"
    /\ UNCHANGED <<collections, documents, parse_tasks, _parsing_semaphore>>
    /\ parse_unchanged

\* the loop of analyze_documents, lines 66-101, from document k on: a
\* document of an unknown class is skipped; the others are kept, with themes
\* when the analysis of the document went through
RECURSIVE analyzed_from(_, _, _)
analyzed_from(docs, oks, k) ==
    IF k > Len(docs) THEN <<>>
    ELSE LET doc == docs[k]
         IN  IF doc.class \notin {"NotParsedDocument", "ParsedDocument"}
             THEN analyzed_from(docs, oks, k + 1)
             ELSE <<Doc("ParsedDocument", doc.title, doc.source_type,
                        doc.text,
                        IF oks[k] THEN "themes of " \o doc.title
                        ELSE doc.themes)>>
                  \o analyzed_from(docs, oks, k + 1)

\* analyze_documents, lines 37-117
analyze_documents ==
    /\ pc = "tool_call"
    /\ tool_call.name = "analyze_documents"
    /\ LET docs == fetch_documents(collections, tool_call.source)
       IN  /\ documents' = docs
           /\ IF docs = <<>>
              THEN /\ tool_return' = Returned(0, <<>>)
                   /\ UNCHANGED collections
              ELSE \E oks \in [1..Len(docs) -> BOOLEAN] :
                      LET analyzed_docs == analyzed_from(docs, oks, 1)
                      IN  /\ collections' =
                                upsert_documents(collections,
                                                 tool_call.destination,
                                                 analyzed_docs)
                          /\ tool_return' = Returned(Len(analyzed_docs),
                                                     analyzed_docs)
    /\ pc' = "tool_returned"
    /\ UNCHANGED <<parse_tasks, _parsing_semaphore>>
    /\ parse_unchanged

NextParse ==
    \/ parse_documents
    \/ \E i \in 1..MaxDocs : parse_document_enter(i)
    \/ \E i \in 1..MaxDocs : parse_document_leave(i)
    \/ parse_documents_return
    \/ parse_documents_raise
    \/ analyze_documents

SpecParse == InitParse /\ [][NextParse]_vars

\* the event loop runs every coroutine that can run, and parsers end
SpecParseLive == SpecParse /\ WF_vars(NextParse)

\* ------------------------------------------------------- a tool run again
\* most executions of one stage tool in a stage, and most documents then
MaxToolRuns == 2

MaxRedoDocs == 1

\* as InitParse, with the collections of the two names apart or not
InitRedo ==
    /\ pc = "tool_call"
    /\ progress_queue = "None"
    /\ RunAtRest
    /\ keys_present = TRUE
    /\ ApiIdle
    /\ tool_call \in [name : {"parse_documents", "analyze_documents"},
                      source : CollectionNames,
                      destination : CollectionNames]
    /\ \E docs \in UNION {[1..n -> SourceDocs] : n \in 0..MaxRedoDocs} :
          collections = [c \in CollectionNames |->
                            IF c = tool_call.source THEN docs ELSE <<>>]
    /\ documents = <<>>
    /\ parse_tasks = <<>>
    /\ MAX_CONCURRENT_PARSING_REQUESTS = 1
    /\ _parsing_semaphore = MAX_CONCURRENT_PARSING_REQUESTS
    /\ score_results = <<>>
    /\ tool_args = <<>>
    /\ tool_return = NoReturn

\* the validator asks for the stage tool once more, with the arguments of
\* the stage: validate_step hands the request to _execute_tool_calls, which
\* runs the tool again (orchestrator.py 438, 361-362); the collections are
\* those the earlier execution left
redo_tool_call ==
    /\ pc = "tool_returned"
    /\ calls_issued + 1 < MaxToolRuns
    /\ calls_issued' = calls_issued + 1
    /\ pc' = "tool_call"
    /\ documents' = <<>>
    /\ parse_tasks' = <<>>
    /\ tool_return' = NoReturn
    /\ UNCHANGED <<entry, keys_present, MAX_RETRIES, cancelled_tasks,
                   max_messages, api_vars, topic, stage, messages, ctx,
                   approved, number_of_tries, validator_calls, msg, call_idx,
                   requests, error_message, errors, rejections, slept,
                   progress_queue, queue, task_status, result, raised,
                   collections, tool_call, MAX_CONCURRENT_PARSING_REQUESTS,
                   _parsing_semaphore, score_results, tool_args>>

NextRedo ==
    \/ NextParse
    \/ redo_tool_call

SpecRedo == InitRedo /\ [][NextRedo]_vars

\* ----------------------------------------------------------------- filter
\* criterion strings the LLM may pass; the same string may come twice
CriterionNames == {"a", "b"}

\* most criteria in a call (the tool only warns when there are not five)
MaxCriteria == 2

\* most documents in the collection to filter
MaxFilterDocs == 2

\* Field(..., ge=1, le=5): the scores on both sides of the threshold
Scores == 1..3

\* score_agent.run for one document: it raises, or its output has one
\* integer criterion_1 .. criterion_n
ScoreOutcomes(n) ==
    {[raised |-> TRUE, output |-> <<>>]}
    \cup {[raised |-> FALSE, output |-> o] : o \in [1..n -> Scores]}

\* filter_results is called on a collection with a list of criteria
InitFilter ==
    /\ pc = "tool_call"
    /\ progress_queue = "None"
    /\ RunAtRest
    /\ keys_present = TRUE
    /\ ApiIdle
    /\ \E criteria \in UNION {[1..n -> CriterionNames] : n \in 0..MaxCriteria} :
          tool_call = [name |-> "filter_results", collection |-> "raw",
                       criteria |-> criteria]
    /\ \E docs \in UNION {[1..n -> {d \in SourceDocs :
                                       d.class = "NotParsedDocument"}] :
                          n \in 0..MaxFilterDocs} :
          collections = [c \in {"raw"} |-> docs]
    /\ documents = <<>>
    /\ parse_tasks = <<>>
    /\ MAX_CONCURRENT_PARSING_REQUESTS = 1
    /\ _parsing_semaphore = 1
    /\ score_results = <<>>
    /\ tool_args = <<>>
    /\ tool_return = NoReturn

\* {criterion: getattr(output, f"criterion_{i + 1}") for i, criterion in
\* enumerate(criteria)}, lines 119-122: a dict, so a criterion string that
\* comes twice keeps the score of its last position
scores_dict(criteria, output) ==
    [c \in {criteria[i] : i \in DOMAIN criteria} |->
        output[CHOOSE i \in DOMAIN criteria :
                  /\ criteria[i] = c
                  /\ \A j \in DOMAIN criteria : j > i => criteria[j] # c]]

RECURSIVE sum_values(_, _)
sum_values(scores, keys) ==
    IF keys = {} THEN 0
    ELSE LET c == CHOOSE x \in keys : TRUE
         IN  scores[c] + sum_values(scores, keys \ {c})

\* sum(scores_dict.values()) / len(scores_dict) if scores_dict else 0, kept
\* as the fraction sum over len (0 over 1 for no score at all)
mean_score(scores) ==
    IF DOMAIN scores = {} THEN [sum |-> 0, len |-> 1]
    ELSE [sum |-> sum_values(scores, DOMAIN scores),
          len |-> Cardinality(DOMAIN scores)]

keep_from_two(mean) == mean.sum >= 2 * mean.len

\* keep = mean_score > 2, line 126
keep(mean) == mean.sum > 2 * mean.len

DocumentScore(title, scores, mean, kept) ==
    [title |-> title, scores |-> scores, mean_score |-> mean, keep |-> kept]

\* the loop of lines 94-142 from document k on: scored_documents and
\* filtered_documents; a document whose scoring raised is in neither
RECURSIVE scored_from(_, _, _, _)
scored_from(docs, outs, criteria, k) ==
    IF k > Len(docs) THEN [scored_documents |-> <<>>,
                           filtered_documents |-> <<>>]
    ELSE LET rest == scored_from(docs, outs, criteria, k + 1)
             scores == scores_dict(criteria, outs[k].output)
             mean == mean_score(scores)
         IN  IF outs[k].raised THEN rest
             ELSE [scored_documents |->
                      <<DocumentScore(docs[k].title, scores, mean,
                                      keep(mean))>>
                      \o rest.scored_documents,
                   filtered_documents |->
                      (IF keep(mean) THEN <<docs[k]>> ELSE <<>>)
                      \o rest.filtered_documents]

\* filter_results, lines 27-153; the return for an empty collection names
\* its empty list "filtered_results" (lines 47-54)
filter_results ==
    /\ pc = "tool_call"
    /\ tool_call.name = "filter_results"
    /\ LET docs == fetch_documents(collections, tool_call.collection)
       IN  /\ documents' = docs
           /\ IF docs = <<>>
              THEN /\ score_results' = <<>>
                   /\ tool_return' = Returned(0, <<>>)
              ELSE \E outs \in [1..Len(docs) ->
                                   ScoreOutcomes(Len(tool_call.criteria))] :
                      LET out == scored_from(docs, outs, tool_call.criteria, 1)
                      IN  /\ score_results' = outs
                          /\ tool_return' =
                                [status |-> "returned",
                                 count |-> Len(out.filtered_documents),
                                 results |-> out.filtered_documents,
                                 scored |-> out.scored_documents]
    /\ pc' = "tool_returned"
    /\ UNCHANGED <<entry, keys_present, MAX_RETRIES, cancelled_tasks,
                   max_messages, api_vars, topic, run_vars, progress_queue,
                   queue, task_status, result, raised, tool_call, collections,
                   parse_tasks, MAX_CONCURRENT_PARSING_REQUESTS,
                   _parsing_semaphore, tool_args>>

NextFilter == filter_results

SpecFilter == InitFilter /\ [][NextFilter]_vars

\* ------------------------------------------------------ store_tool_results
\* call ids of the tool turns of a transcript, and an id no turn carries
TurnIds == {"call_1", "call_2"}

CallIds == TurnIds \cup {"call_9"}

\* most turns in the supplied messages, most ids in tool_call_ids
MaxStoreMessages == 2

MaxStoreIds == 2

\* an item of a tool result: a dict with or without a 'text' field
Item(title, has_text) == [title |-> title, has_text |-> has_text]

\* the content of a tool turn, by what lines 124-180 make of it: a payload
\* whose "results" is a list of dicts, a string that neither json.loads nor
\* ast.literal_eval can read, and a payload that is no dict and no list
Contents ==
    {[kind |-> "results", items |-> <<Item("n1", FALSE)>>],
     [kind |-> "results", items |-> <<Item("p1", TRUE)>>],
     [kind |-> "results", items |-> <<>>],
     [kind |-> "unparsable", items |-> <<>>],
     [kind |-> "scalar", items |-> <<>>]}

StoreTurns ==
    [role : {"tool"}, tool_call_id : TurnIds, content : Contents]
    \cup {[role |-> "assistant", tool_call_id |-> "",
           content |-> [kind |-> "scalar", items |-> <<>>]]}

\* store_tool_results is called with a collection, ids and the transcript
\* (messages = <<>> stands for None and for the empty list: `if not msgs`)
InitStore ==
    /\ pc = "tool_call"
    /\ progress_queue = "None"
    /\ RunAtRest
    /\ keys_present = TRUE
    /\ ApiIdle
    /\ \E ids \in UNION {[1..n -> CallIds] : n \in 0..MaxStoreIds},
          msgs \in UNION {[1..n -> StoreTurns] : n \in 0..MaxStoreMessages} :
          tool_call = [name |-> "store_tool_results", collection |-> "raw",
                       tool_call_ids |-> ids, messages |-> msgs]
    /\ collections \in {[c \in {"raw"} |-> <<>>],
                        [c \in {"raw"} |->
                            <<Doc("NotParsedDocument", "d1", "web", "", "")>>]}
    /\ documents = <<>>
    /\ parse_tasks = <<>>
    /\ MAX_CONCURRENT_PARSING_REQUESTS = 1
    /\ _parsing_semaphore = 1
    /\ score_results = <<>>
    /\ tool_args = <<>>
    /\ tool_return = NoReturn

any_tool_turn(turn, tool_call_id) == turn.role = "tool"

\* msg.get("role") == "tool" and msg.get("tool_call_id") == tool_call_id
turn_matches(turn, tool_call_id) ==
    /\ turn.role = "tool"
    /\ turn.tool_call_id = tool_call_id

\* the inner loop of lines 119-184 from turn k on: the items of the first
\* matching turn whose content can be read; a content that cannot be read
\* raises DatabaseError, which is caught, and the scan goes on
RECURSIVE items_of(_, _, _)
items_of(msgs, tool_call_id, k) ==
    IF k > Len(msgs) THEN <<>>
    ELSE IF turn_matches(msgs[k], tool_call_id)
              /\ msgs[k].content.kind # "unparsable"
         THEN msgs[k].content.items
         ELSE items_of(msgs, tool_call_id, k + 1)

\* the outer loop of line 117 from id n on: items_to_store
RECURSIVE items_to_store(_, _, _)
items_to_store(msgs, ids, n) ==
    IF n > Len(ids) THEN <<>>
    ELSE items_of(msgs, ids[n], 1) \o items_to_store(msgs, ids, n + 1)

\* _parse_documents_from_dict, lines 21-36: all items with text, or none
mixed_items(items) ==
    /\ \E i \in DOMAIN items : items[i].has_text
    /\ \E i \in DOMAIN items : ~items[i].has_text

_parse_documents_from_dict(items) ==
    [i \in DOMAIN items |->
        IF items[i].has_text
        THEN Doc("ParsedDocument", items[i].title, "unknown", "text", "")
        ELSE Doc("NotParsedDocument", items[i].title, "unknown", "", "")]

StoreReturn(count, ids, message, error) ==
    [status |-> "returned", count |-> count, results |-> ids,
     scored |-> <<>>, message |-> message, error |-> error]

\* store_tool_results, lines 89-217
store_tool_results ==
    /\ pc = "tool_call"
    /\ tool_call.name = "store_tool_results"
    /\ LET msgs == tool_call.messages
           items == items_to_store(msgs, tool_call.tool_call_ids, 1)
       IN  IF msgs = <<>>
           THEN /\ tool_return' =
                      StoreReturn(0, <<>>, "", "No messages provided")
                /\ pc' = "tool_returned"
                /\ UNCHANGED collections
           ELSE IF items = <<>>
           THEN /\ tool_return' =
                      StoreReturn(0, <<>>, "No valid items found from the "
                                  \o "provided tool_call_ids", "")
                /\ pc' = "tool_returned"
                /\ UNCHANGED collections
           ELSE IF mixed_items(items)
           THEN /\ tool_return' = Raised("DatabaseError")
                /\ pc' = "tool_raised"
                /\ UNCHANGED collections
           ELSE /\ collections' =
                      upsert_documents(collections, tool_call.collection,
                                       _parse_documents_from_dict(items))
                /\ tool_return' =
                      StoreReturn(Len(items),
                                  [i \in DOMAIN items |-> items[i].title],
                                  "Successfully stored", "")
                /\ pc' = "tool_returned"
    /\ UNCHANGED <<entry, keys_present, MAX_RETRIES, cancelled_tasks,
                   max_messages, api_vars, topic, run_vars, progress_queue,
                   queue, task_status, result, raised, tool_call, documents,
                   parse_tasks, MAX_CONCURRENT_PARSING_REQUESTS,
                   _parsing_semaphore, score_results, tool_args>>

NextStore == store_tool_results

SpecStore == InitStore /\ [][NextStore]_vars

\* ------------------------------------------------------ _execute_tool_calls
\* names an assistant turn may ask for: the tools as mounted, and the name
\* of the store tool without the prefix of its mount, which server.get_tool
\* does not find
RequestedNames == ToolNames \cup {"store_tool_results"}

\* most requests on the assistant turn that is executed
MaxExecCalls == 3

\* an earlier round of the run: one request and its tool turn
EarlierRound ==
    LET call == [id |-> 1, name |-> "search_search_web"]
    IN  <<AssistantTurn(None, <<call>>),
          ToolTurn(call, Payload("dict", Absent, Absent, "results"))>>

\* what may follow the assistant turn when _execute_tool_calls is called:
\* nothing, a user turn, or a tool turn
Tails ==
    {<<>>,
     <<UserTurn(<<"SAVE">>)>>,
     <<ToolTurn([id |-> 1, name |-> "search_search_web"],
                Payload("dict", Absent, Absent, "results"))>>}

\* the transcripts _execute_tool_calls is called on: the empty one, and
\* those with an assistant turn of 0 to MaxExecCalls requests
ExecTranscripts ==
    {<<>>} \cup
    {<<SystemTurn("ORCHESTRATOR_SYSTEM_PROMPT"), UserTurn(<<"SEARCH">>)>>
     \o earlier
     \o <<AssistantTurn(None, tool_calls_of(names, 1))>>
     \o tail :
        names \in UNION {[1..n -> RequestedNames] : n \in 0..MaxExecCalls},
        earlier \in {<<>>, EarlierRound},
        tail \in Tails}

\* the requests of the last assistant turn, wherever it is
last_assistant_of(msgs) ==
    LET at == {k \in DOMAIN msgs : msgs[k].role = "assistant"}
    IN  IF at = {} THEN NoMessage
        ELSE LET k == CHOOSE x \in at : \A y \in at : y <= x
             IN  [content |-> msgs[k].content,
                  tool_calls |-> msgs[k].tool_calls]

\* last = messages[-1] and its tool_calls, lines 329-336; none for an empty
\* transcript (line 329) and for a turn without the key
last_of(msgs) ==
    IF msgs = <<>> THEN NoMessage
    ELSE [content |-> msgs[Len(msgs)].content,
          tool_calls |-> msgs[Len(msgs)].tool_calls]

\* _execute_tool_calls is called on a transcript; no progress queue is
\* attached
InitExecute ==
    /\ pc = "tools"
    /\ entry = "client"
    /\ topic = <<"A", "I">>
    /\ keys_present = TRUE
    /\ MAX_RETRIES = 1
    /\ stage = 1
    /\ messages \in ExecTranscripts
    /\ msg = last_of(messages)
    /\ ctx = "step"
    /\ approved = FALSE
    /\ number_of_tries = 1
    /\ validator_calls = 0
    /\ call_idx = 1
    /\ calls_issued = 1 + Len(msg.tool_calls)
    /\ requests = <<>>
    /\ error_message = ""
    /\ errors = 0
    /\ rejections = 0
    /\ slept = 0
    /\ progress_queue = "None"
    /\ queue = <<>>
    /\ task_status = ""
    /\ cancelled_tasks = FALSE
    /\ result = NoResult
    /\ raised = ""
    /\ max_messages = FALLBACK_MAX_MESSAGES
    /\ ApiIdle
    /\ ToolIdle

\* the requests taken from the end of the list
call_from_end(tool_calls, idx) == tool_calls[Len(tool_calls) + 1 - idx]

\* `for call in tool_calls`, line 340: the requests in the order of the turn
call_at(tool_calls, idx) == tool_calls[idx]

\* any tool whose name ends like the one of the store tool
injects_by_suffix(tool_name) ==
    tool_name \in {"db_store_tool_results", "store_tool_results"}

\* tool_name == "db_store_tool_results", line 357
injects(tool_name) == tool_name = "db_store_tool_results"

\* the arguments handed to tool.run; the arguments the LLM wrote are left
\* out, "messages" is the transcript as it is when the request starts
args_of(call, msgs) ==
    [name |-> call.name,
     injected |-> injects(call.name),
     messages |-> IF injects(call.name) THEN msgs ELSE <<>>]

\* a failed request answered with a tool turn that carries the error
failure_as_tool_turn(msgs, call) ==
    Append(msgs, ToolTurn(call, Payload("dict", Absent, Absent, "error")))

\* the transcript when server.get_tool or tool.run raised, lines 361-362:
\* nothing catches the exception, the append of line 372 is not reached
transcript_after_failure(msgs, call) == msgs

\* one turn of the loop of _execute_tool_calls, lines 340-378; with no
\* progress queue _emit_tool_progress returns at once (line 88)
_execute_tool_calls ==
    /\ pc = "tools"
    /\ msg.tool_calls # <<>>
    /\ LET call == call_at(msg.tool_calls, call_idx)
           args == args_of(call, messages)
       IN  /\ tool_args' = args
           /\ \/ /\ call.name \in ToolNames
                 /\ messages' = Append(messages,
                                       ToolTurn(call,
                                                tool_result(call,
                                                            args.messages)))
                 /\ call_idx' = call_idx + 1
                 /\ pc' = IF call_idx = Len(msg.tool_calls)
                          THEN after(ctx) ELSE "tools"
                 /\ UNCHANGED raised
              \/ /\ call.name \in ToolNames
                 /\ messages' = transcript_after_failure(messages, call)
                 /\ pc' = "run_raised"
                 /\ raised' = "ToolError"
                 /\ UNCHANGED call_idx
              \/ /\ call.name \notin ToolNames
                 /\ messages' = transcript_after_failure(messages, call)
                 /\ pc' = "run_raised"
                 /\ raised' = "NotFoundError"
                 /\ UNCHANGED call_idx
    /\ UNCHANGED <<entry, keys_present, MAX_RETRIES, cancelled_tasks,
                   max_messages, api_vars, topic, stage, ctx, approved,
                   number_of_tries, validator_calls, msg, calls_issued,
                   requests, error_message, errors, rejections, slept,
                   progress_queue, queue, task_status, result, collections,
                   tool_call, documents, parse_tasks,
                   MAX_CONCURRENT_PARSING_REQUESTS, _parsing_semaphore,
                   score_results, tool_return>>

\* `if messages:` and `if tool_calls:`, lines 329 and 338: with no request
\* on the last turn the function returns the list it was given
_execute_tool_calls_no_calls ==
    /\ pc = "tools"
    /\ msg.tool_calls = <<>>
    /\ pc' = after(ctx)
    /\ UNCHANGED <<env_vars, topic, stage, messages, ctx, approved,
                   number_of_tries, validator_calls, msg, call_idx,
                   calls_issued, requests, error_message, errors, rejections,
                   slept, progress_queue, queue, task_status, result, raised>>

NextExecute ==
    \/ _execute_tool_calls
    \/ _execute_tool_calls_no_calls

SpecExecute == InitExecute /\ [][NextExecute]_vars

TypeOK ==
    /\ stage \in 0..Len(STAGES)
    /\ number_of_tries \in 1..MaxRetriesChoice + 1
    /\ calls_issued \in 0..MaxToolCalls
    /\ Len(requests) <= 3
    /\ rejections \in 0..MaxRejections
    /\ \A k \in 1..Len(msg.tool_calls) : msg.tool_calls[k].name \in ToolNames

\* ---------------------------------------------------------------- helpers
\* positions of the items of the queue with a given message and step
EventIdx(message, step) ==
    {i \in 1..Len(queue) : queue[i].message = message /\ queue[i].step = step}

\* stage i has been left
ended(i) ==
    \/ i < stage
    \/ i = stage /\ pc \in {"return", "run_returned"}
    \/ i = stage /\ pc = "finished" /\ result.status = "completed"

\* the run is inside a stage
in_stage == pc \in {"chat_wait", "tools", "save", "loop", "validate_end"}

\* ------------------------------------------------------------------ claims

\* C1: a tool exception raised while a stage's tool calls run never leaves
\* run_llm_sota: the run does not raise because of it.
C1_ToolExceptionStaysInStage == raised # "ToolError"

\* C2: a stage whose validation attempts are exhausted without approval emits
\* the 'completed with warnings' event and hands over to the next stage in the
\* fixed order (or to the final extraction after the last one) without raising,
\* and a run that returns has status 'completed'.
C2_ExhaustionNotFatal ==
    [][ /\ (pc = "loop" /\ ~approved /\ number_of_tries >= MAX_RETRIES)
           => /\ raised' = ""
              /\ progress_queue # "None"
                 => queue' = Append(queue, Event(STAGES[stage],
                                                 "completed with warnings",
                                                 STAGES[stage], 0))
              /\ stage < Len(STAGES) => (stage' = stage + 1 /\ pc' = "step")
              /\ stage = Len(STAGES) => pc' = "return"
        /\ pc' = "run_returned" => result'.status = "completed" ]_vars

\* a run returned although one of its stages ended with warnings
C2_Witness ==
    /\ pc = "finished"
    /\ result.status = "completed"
    /\ \E i \in 1..Len(STAGES) - 1 :
          EventIdx("completed with warnings", STAGES[i]) # {}

InstructionHeads == {step_instruction(i, <<>>)[1] : i \in 1..Len(STAGES)}

\* the turn opens a stage
IsInstruction(t) ==
    /\ t.role = "user"
    /\ t.content # <<>>
    /\ t.content[1] \in InstructionHeads

\* the item is an event of the stage runner; it opens or closes a stage
IsRunnerEvent(e) ==
    e.message \in {"Starting", "Saving", "Validating",
                   "completed successfully", "completed with warnings"}

IsTerminalEvent(e) ==
    e.message \in {"completed successfully", "completed with warnings"}

IsBoundaryEvent(e) == e.message = "Starting" \/ IsTerminalEvent(e)

\* number of stages entered, and left, so far
n_started == IF pc = "step" THEN stage - 1 ELSE stage

n_ended == IF stage >= 1 /\ ended(stage) THEN stage ELSE stage - 1

\* C4: the stages run in the order of STAGES, none skipped, none repeated:
\* the opening turns in the transcript are those of the stages entered so
\* far, once each and in order; on the queue the opening and terminal events
\* alternate, stage after stage in that order, so that a stage's first event
\* follows the terminal event of the stage before it, and every other event
\* of the runner lies inside its own stage; a run that returns has left all
\* five.
C4_FixedStageOrder ==
    /\ stage >= 1
          => /\ SelectSeq(messages, IsInstruction)
                   = [i \in 1..n_started |-> UserTurn(step_instruction(i, topic))]
             /\ progress_queue # "None"
                   => LET B == SelectSeq(queue, IsBoundaryEvent)
                          R == SelectSeq(queue, IsRunnerEvent)
                      IN  /\ Len(B) = n_started + n_ended
                          /\ \A k \in 1..Len(B) :
                                /\ B[k].step = STAGES[(k + 1) \div 2]
                                /\ (B[k].message = "Starting") <=> (k % 2 = 1)
                          /\ \A k \in 1..Len(R) :
                                ~IsBoundaryEvent(R[k])
                                   => /\ k > 1
                                      /\ R[k - 1].step = R[k].step
                                      /\ ~IsTerminalEvent(R[k - 1])
    /\ pc = "run_returned" => n_ended = Len(STAGES)

\* the last stage was entered with earlier stages both approved and not
C4_Witness ==
    /\ stage = Len(STAGES)
    /\ pc = "chat_wait"
    /\ progress_queue # "None"
    /\ EventIdx("completed with warnings", STAGES[1]) # {}
    /\ EventIdx("completed successfully", STAGES[2]) # {}

\* C5: a chat call whose last attempt fails too does not abort the pipeline:
\* run_llm_sota does not raise because of it.
C5_ChatExhaustionStaysInStage == ~(errors = 3 /\ raised = "RateLimitError")

\* C6: after a throttling error on the first request the chat call gives up at
\* once, without sleeping or asking again, exactly when the error text tells
\* of a per-request size violation; otherwise it sleeps 60 s and asks again
\* with the unmodified transcript.
C6_SizeViolationNotRetried ==
    errors >= 1
       => IF size_violation(error_message)
          THEN raised = "RateLimitError" /\ slept = 0 /\ Len(requests) = 1
          ELSE /\ slept >= COOLDOWN_SECONDS
               /\ Len(requests) >= 2 => requests[2] = messages

\* the turns of `sent` are the last turns of `full`
IsSuffix(sent, full) ==
    /\ Len(sent) <= Len(full)
    /\ sent = SubSeq(full, Len(full) - Len(sent) + 1, Len(full))

\* every tool turn of a transcript comes with the assistant turn that asked
PairsKept(sent) ==
    \A k \in 1..Len(sent) :
       sent[k].role = "tool"
          => \E j \in 1..k - 1 :
                /\ sent[j].role = "assistant"
                /\ \E c \in 1..Len(sent[j].tool_calls) :
                      sent[j].tool_calls[c].id = sent[k].tool_call_id

\* `sent` is `full` cut to its last n turns, reaching further back only over
\* tool turns and up to the first turn that is not one
IsFallbackTrim(sent, full, n) ==
    /\ IsSuffix(sent, full)
    /\ Len(full) <= n => sent = full
    /\ Len(full) > n
          => /\ Len(sent) >= n
             /\ sent[1].role # "tool"
             /\ \A k \in 2..Len(sent) - n + 1 : sent[k].role = "tool"
    /\ PairsKept(sent)

\* C7: a chat call sends at most three requests; the third follows two
\* throttling errors and two cooldowns and carries the transcript trimmed to
\* its last 5 turns without splitting an assistant/tool pair; when the third
\* fails the error leaves the chat call and nothing more is sent.
C7_ThreeRequestsAtMost ==
    /\ Len(requests) <= 3
    /\ Len(requests) = 3
          => /\ errors >= 2
             /\ slept = 2 * COOLDOWN_SECONDS
             /\ IsFallbackTrim(requests[3], messages, FALLBACK_MAX_MESSAGES)
    /\ errors = 3 => raised = "RateLimitError" /\ Len(requests) = 3

\* a third request whose transcript was extended backward to keep a pair
C7_Witness ==
    /\ pc = "chat_wait"
    /\ Len(requests) = 3
    /\ Len(requests[3]) > FALLBACK_MAX_MESSAGES
    /\ Len(requests[3]) < Len(messages)

\* the reply text, with its leading white space skipped, begins with the
\* letters of APPROVE in either case
BeginsWithApprove(s) ==
    /\ s # None
    /\ \E i \in 1..Len(s) :
          /\ \A j \in 1..i - 1 : s[j] \in WhiteSpace
          /\ i + Len(APPROVE) - 1 <= Len(s)
          /\ \A k \in 1..Len(APPROVE) :
                \E n \in 1..Len(UpperCase) :
                   /\ UpperCase[n] = APPROVE[k]
                   /\ s[i + k - 1] \in {UpperCase[n], LowerCase[n]}

ApproveLooksGood ==
    <<"a", "p", "p", "r", "o", "v", "e", ":", " ",
      "l", "o", "o", "k", "s", " ", "g", "o", "o", "d">>

RedoNeedsWork ==
    <<"R", "E", "D", "O", ":", " ", "n", "e", "e", "d", "s", " ", "w", "o", "r", "k">>

\* C8: the verdict of validate_step is approval exactly when the reply text,
\* stripped and upper-cased, starts with APPROVE; None and the empty text are
\* not approved, 'approve: looks good' is, 'REDO: needs work' and a text with
\* APPROVE after other words are not.
C8_ApprovalRule ==
    (pc = "loop" /\ ctx = "validate")
       => /\ approved = BeginsWithApprove(msg.content)
          /\ msg.content \in {None, <<>>, RedoNeedsWork} => ~approved
          /\ msg.content = ApproveLooksGood => approved
          /\ msg.content = <<"x", " ">> \o APPROVE => ~approved

\* the lower-case reply of the tests was judged
C8_Witness ==
    /\ pc = "loop"
    /\ msg.content = ApproveLooksGood
    /\ approved

C10_BlankTopicRejected ==
    strip(topic) = <<>>
       => /\ messages = <<>>
          /\ requests = <<>>
          /\ stage = 0
          /\ \A i \in 1..Len(STAGES) : EventIdx("Starting", STAGES[i]) = {}

\* the wrapped tool name of the turn is that of a synthesis tool
NamesSynthesis(m) ==
    /\ m.role = "tool"
    /\ Len(m.content) = 5
    /\ m.content[1] \in {"synthesizer_write_sota", "write_sota"}

\* the last position of the transcript that holds a turn of the set
LastOf(S) == CHOOSE k \in S : \A j \in S : j <= k

HoldsReport(m) ==
    /\ NamesSynthesis(m)
    /\ m.content[2] = "dict"
    /\ \/ m.content[3] \notin {Absent, "", NonStr}
       \/ m.content[3] \in {Absent, ""} /\ m.content[4] \notin {Absent, NonStr}

ReportOf(m) ==
    IF m.content[3] \in {Absent, ""} THEN m.content[4] ELSE m.content[3]

C12_EmptyReportCompletes ==
    [][ (/\ pc = "return"
         /\ \A k \in 1..Len(messages) : ~HoldsReport(messages[k]))
           => /\ pc' = "run_returned"
              /\ raised' = ""
              /\ result' = [topic |-> topic, status |-> "completed",
                            text |-> ""] ]_vars

\* a run returned the empty text after tool calls of other tools only
C12_Witness ==
    /\ pc = "run_returned"
    /\ result.text = ""
    /\ result.status = "completed"
    /\ \E k \in 1..Len(messages) : messages[k].role = "tool"

\* the turns of `old` are the first turns of `new`, unchanged and in order
IsPrefix(old, new) ==
    /\ Len(old) <= Len(new)
    /\ old = SubSeq(new, 1, Len(old))

\* C13: the transcript of a run only grows by appending: whatever step is
\* taken, the transcript before it is a prefix of the transcript after it,
\* the fallback request with its trimmed copy and the tool run that is
\* handed the transcript included.
C13_AppendOnly == [][IsPrefix(messages, messages')]_vars

\* a trimmed copy was sent and db_store_tool_results had been handed the
\* transcript, which is still the one the chat call first sent
C13_Witness ==
    /\ pc = "chat_wait"
    /\ Len(requests) = 3
    /\ requests[3] # messages
    /\ requests[1] = messages
    /\ \E k \in 1..Len(messages) :
          /\ messages[k].role = "tool"
          /\ messages[k].content[1] = "db_store_tool_results"

\* the position of the last turn before k that is not a tool turn, 0 if none
RECURSIVE AskerOf(_)
AskerOf(k) ==
    IF k <= 1 THEN 0
    ELSE IF messages[k - 1].role # "tool" THEN k - 1
    ELSE AskerOf(k - 1)

\* the turn at k answers the request at its place on the assistant turn it
\* follows
AnswersItsAsker(k) ==
    LET j == AskerOf(k)
    IN  /\ j > 0
        /\ messages[j].role = "assistant"
        /\ k - j <= Len(messages[j].tool_calls)
        /\ messages[j].tool_calls[k - j].id = messages[k].tool_call_id

\* every request of the assistant turn at j has its tool turn right after it
Answered(j) ==
    \A i \in 1..Len(messages[j].tool_calls) :
       /\ j + i <= Len(messages)
       /\ messages[j + i].role = "tool"
       /\ messages[j + i].tool_call_id = messages[j].tool_calls[i].id

C15_OneSystemTurn ==
    messages # <<>>
       => /\ messages[1].role = "system"
          /\ \A k \in 2..Len(messages) : messages[k].role # "system"

\* C15, amended: the first turn of the transcript of a run is the system
\* turn with the orchestrator prompt, the only turn with that prompt; every
\* other system turn is the validation-framing turn of a validate_step call,
\* followed at once by the user turn with the validation prompt of the
\* stage.
C15_SystemTurns ==
    messages # <<>>
       => /\ messages[1] = SystemTurn("ORCHESTRATOR_SYSTEM_PROMPT")
          /\ \A k \in 2..Len(messages) :
                messages[k].role = "system"
                   => /\ messages[k].content = <<"VALIDATION_PROMPT">>
                      /\ k < Len(messages)
                      /\ messages[k + 1].role = "user"
                      /\ \E i \in 1..Len(STAGES) :
                            messages[k + 1].content = validation_prompt(i)

\* two validation rounds have each left their framing turn
C15_Witness ==
    /\ Cardinality({k \in 1..Len(messages) : messages[k].role = "system"}) = 3
    /\ messages[1] = SystemTurn("ORCHESTRATOR_SYSTEM_PROMPT")

\* ------------------------------------------------------ trimming claims
\* what the first call of _trim_message_history returned
Trimmed == requests[1]

BeginsWithTool(sent) == sent # <<>> /\ sent[1].role = "tool"

\* C16 as stated: the trimmed transcript is a contiguous suffix of the
\* transcript and never begins with a tool turn, unless the transcript is
\* shorter than the limit
C16_SuffixNoLeadingTool ==
    requests # <<>>
       => /\ IsSuffix(Trimmed, messages)
          /\ ~(Len(messages) < max_messages) => ~BeginsWithTool(Trimmed)

\* C16, amended: the trimmed transcript is a contiguous suffix of the
\* transcript, and begins with a tool turn only when it is the whole
\* transcript: one no longer than the limit, or one whose turns from the
\* first to the cut are all tool turns
C16_SuffixLeadingToolOnlyWhenWhole ==
    requests # <<>>
       => /\ IsSuffix(Trimmed, messages)
          /\ BeginsWithTool(Trimmed)
                => /\ Trimmed = messages
                   /\ \/ Len(messages) <= max_messages
                      \/ \A k \in 1..Len(messages) - max_messages + 1 :
                            messages[k].role = "tool"

\* C16 witness: a cut that fell on the second of two tool turns was moved
\* back to the assistant turn before them, inside the transcript
C16_Witness ==
    /\ requests # <<>>
    /\ max_messages >= 1
    /\ Len(Trimmed) = max_messages + 2
    /\ Len(Trimmed) < Len(messages)
    /\ Trimmed[1].role = "assistant"
    /\ Trimmed[2].role = "tool"
    /\ Trimmed[3].role = "tool"

Max(a, b) == IF a >= b THEN a ELSE b

\* the number of consecutive tool turns of a transcript that end at turn c
ToolRun(full, c) ==
    Cardinality({k \in 1..c : \A h \in k..c : full[h].role = "tool"})

\* the first turn the limit keeps (1-based): the cut
Cut == Len(messages) - max_messages + 1

\* C17 as stated: the trimmed transcript has at most max(L, 1) turns
C17_LengthAtMostLimit ==
    requests # <<>> => Len(Trimmed) <= Max(max_messages, 1)

\* C17, amended: the trimmed transcript has at most max(L, 0) turns and the
\* consecutive tool turns that end at the cut; so at most max(L, 0) turns
\* when the turn at the cut is not a tool turn
C17_LengthAtMostLimitAndToolRun ==
    requests # <<>>
       => Len(Trimmed) <= Max(max_messages, 0)
                          + (IF Cut \in 1..Len(messages)
                             THEN ToolRun(messages, Cut) ELSE 0)

\* C17 witness: a trimmed transcript longer than max(L, 1), by exactly the
\* tool turns that end at the cut
C17_Witness ==
    /\ requests # <<>>
    /\ max_messages >= 1
    /\ Len(Trimmed) > Max(max_messages, 1)
    /\ Len(Trimmed) < Len(messages)
    /\ Len(Trimmed) = max_messages + ToolRun(messages, Cut)

\* C18: trimming what was trimmed changes nothing: the second call of
\* _trim_message_history, on what the first returned and with the same
\* limit, returns it again, also when the first call went back past the limit
C18_TrimIdempotent ==
    Len(requests) = 2 => requests[2] = requests[1]

\* C18 witness: both calls made, the first returned a proper suffix longer
\* than the limit, so the second call had to cut and go back again
C18_Witness ==
    /\ Len(requests) = 2
    /\ max_messages >= 1
    /\ Len(requests[1]) > max_messages
    /\ Len(requests[1]) < Len(messages)
    /\ requests[2] = requests[1]

\* a transcript as the orchestrator builds it: each tool turn follows the
\* assistant turn that asked for it, at the place of its request
WellFormed ==
    \A k \in 1..Len(messages) :
       messages[k].role = "tool" => AnswersItsAsker(k)

\* C19: trimmed from a transcript the orchestrator could have built, with
\* whatever limit, every tool turn kept has the assistant turn with its
\* call id kept before it
C19_KeptToolTurnsKeepTheirAssistant ==
    requests # <<>> /\ WellFormed => PairsKept(Trimmed)

\* C19 witness: the cut fell on the second answer to an assistant turn with
\* two requests; both answers and that assistant turn are kept
C19_Witness ==
    /\ requests # <<>>
    /\ WellFormed
    /\ max_messages >= 1
    /\ Len(Trimmed) = max_messages + 2
    /\ Len(Trimmed) < Len(messages)
    /\ Len(Trimmed[1].tool_calls) = 2
    /\ Trimmed[2].role = "tool"
    /\ Trimmed[3].role = "tool"
    /\ PairsKept(Trimmed)

\* C20: a transcript no longer than the limit is returned as it is; a longer
\* one whose turn at the cut is not a tool turn is returned as its last
\* max_messages turns, in order
C20_UnchangedOrLastTurns ==
    requests # <<>>
       => /\ Len(messages) <= max_messages => Trimmed = messages
          /\ (/\ Len(messages) > max_messages
              /\ max_messages >= 0
              /\ Cut \in 1..Len(messages) => messages[Cut].role # "tool")
                => Trimmed = SubSeq(messages, Cut, Len(messages))

\* C20 witness: a transcript with tool turns, longer than the limit, cut at
\* a turn that is not a tool turn
C20_Witness ==
    /\ requests # <<>>
    /\ max_messages >= 2
    /\ Len(messages) > max_messages + 1
    /\ messages[Cut].role = "assistant"
    /\ messages[Cut + 1].role = "tool"
    /\ Len(Trimmed) = max_messages
    /\ Trimmed = SubSeq(messages, Cut, Len(messages))

\* ------------------------------------------------ overlapping-run claims
\* C21: when runs started through the API overlap, each one owns its store:
\* the tool calls of a run open no directory but the one made for that run,
\* a run reads no document another run wrote, and the directory of a run is
\* on disk for as long as the run is executing.
C21_IsolatedStores ==
    \A t \in TaskIds :
       /\ tasks[t].used \subseteq {tasks[t].temp_chroma_dir}
       /\ tasks[t].read \subseteq {t}
       /\ tasks[t].at = "pipeline"
             => tasks[t].temp_chroma_dir \in DOMAIN chroma_dirs

\* the items an event_generator has yielded: all it took but the
\* end-of-stream item
Yielded(t) == SelectSeq(streamed[t], LAMBDA e : e # Sentinel)

\* C22: the consumer of the queue of a task gets the progress events of that
\* task in the order they were emitted: at any moment what it has been given
\* is a prefix of what the run of the task has emitted, and all of it once
\* the stream has ended.
C22_StreamInEmissionOrder ==
    \A t \in TaskIds :
       /\ IsPrefix(Yielded(t), tasks[t].emitted)
       /\ Yielded(t) # streamed[t] => Yielded(t) = tasks[t].emitted

\* ---------------------------------------------------------- tool claims
\* C23: parse_documents and analyze_documents leave the source collection as
\* it was, whatever two collection names they are called with: once the
\* tool has fetched the documents, and after it has run, the source
\* collection holds the documents that were fetched.
C23_SourceCollectionUntouched ==
    pc \in {"gather", "tool_returned", "tool_raised"}
       => collections[tool_call.source] = documents

\* the parse_document coroutines inside the parsing section
InsideSection == {i \in 1..Len(parse_tasks) : parse_tasks[i].at = "inside"}

\* C26: at every moment at most MAX_CONCURRENT_PARSING_REQUESTS documents
\* are inside the parsing section of parse_documents, and in the end every
\* document has had its turn and the call has completed.
C26_BoundedParsing ==
    /\ [](Cardinality(InsideSection) <= MAX_CONCURRENT_PARSING_REQUESTS)
    /\ <>[](/\ pc \in {"tool_returned", "tool_raised"}
            /\ \A i \in 1..Len(parse_tasks) :
                  parse_tasks[i].at \in {"done", "raised"})

\* C26 witness: the section is full and a document is waiting for a slot,
\* with more documents than slots
C26_Witness ==
    /\ pc = "gather"
    /\ Len(documents) > MAX_CONCURRENT_PARSING_REQUESTS
    /\ Cardinality(InsideSection) = MAX_CONCURRENT_PARSING_REQUESTS
    /\ _parsing_semaphore = 0
    /\ \E i \in 1..Len(parse_tasks) : parse_tasks[i].at = "waiting"

\* the classes parse_document accepts
Supported == {"NotParsedDocument", "ParsedDocument", "dict"}

\* C27: parse_documents, when it returns, has one parsed document for each
\* source document, in source order, and stored_count is the number of
\* source documents: a parsed source document is returned as it is, a
\* document whose parser raised comes with the text 'Failed to parse
\* content.', one whose parser returned with the text of the parser; the
\* call raises only when a source document is of no supported class.
C27_OneParsedDocumentPerSource ==
    tool_call.name = "parse_documents"
       => /\ pc = "tool_returned"
             => /\ tool_return.status = "returned"
                /\ tool_return.count = Len(documents)
                /\ Len(tool_return.results) = Len(documents)
                /\ \A i \in 1..Len(documents) :
                      LET d == documents[i]
                          r == tool_return.results[i]
                      IN  /\ d.class \in Supported
                          /\ r.class = "ParsedDocument"
                          /\ r.title = d.title
                          /\ d.class = "ParsedDocument" => r = d
                          /\ parse_tasks[i].parser = "raised"
                                => r.text = "Failed to parse content."
                          /\ parse_tasks[i].parser = "returned"
                                => r.text = "text of " \o d.title
                          /\ d.class # "ParsedDocument"
                                => parse_tasks[i].parser # ""
          /\ pc = "tool_raised"
                => \E i \in 1..Len(documents) :
                      documents[i].class \notin Supported

\* C27 witness: the call returned three documents: one whose parser raised,
\* one whose parser returned and one that was parsed already
C27_Witness ==
    /\ tool_call.name = "parse_documents"
    /\ pc = "tool_returned"
    /\ tool_return.count = 3
    /\ \E i, j, k \in 1..Len(documents) :
          /\ parse_tasks[i].parser = "raised"
          /\ parse_tasks[j].parser = "returned"
          /\ documents[k].class = "ParsedDocument"
          /\ tool_return.results[i].text = "Failed to parse content."

\* C24: when no id of tool_call_ids is the call id of a tool turn of the
\* supplied messages, store_tool_results writes nothing to the store and
\* returns count 0 with a message; when no messages are supplied it writes
\* nothing and returns count 0 with an error.
SomeIdMatches ==
    \E n \in DOMAIN tool_call.tool_call_ids, k \in DOMAIN tool_call.messages :
       /\ tool_call.messages[k].role = "tool"
       /\ tool_call.messages[k].tool_call_id = tool_call.tool_call_ids[n]

C24_NoMatchNoWrite ==
    [][(pc = "tool_call" /\ tool_call.name = "store_tool_results")
          => /\ (tool_call.messages # <<>> /\ ~SomeIdMatches)
                => /\ collections' = collections
                   /\ tool_return'.status = "returned"
                   /\ tool_return'.count = 0
                   /\ tool_return'.message # ""
             /\ tool_call.messages = <<>>
                => /\ collections' = collections
                   /\ tool_return'.status = "returned"
                   /\ tool_return'.count = 0
                   /\ tool_return'.error # ""]_vars

\* the transcript holds a tool turn with a document, the id asked for is
\* the id of no turn: count 0, a message, and the collection as it was
C24_Witness ==
    /\ pc = "tool_returned"
    /\ tool_call.name = "store_tool_results"
    /\ tool_call.tool_call_ids = <<"call_9">>
    /\ Len(tool_call.messages) = 1
    /\ tool_call.messages[1].role = "tool"
    /\ tool_call.messages[1].tool_call_id = "call_1"
    /\ tool_call.messages[1].content.items # <<>>
    /\ tool_return.count = 0
    /\ tool_return.message # ""
    /\ Len(collections["raw"]) = 1


\* C25: filter_results keeps a document if and only if its scoring did not
\* raise and the mean of the scores of its criteria is above 2 (a mean of 2 is
\* dropped); count is the number of kept documents, which come in the order
\* of the source collection.  A criterion has one score: the dict of the
\* source keeps, for a string given twice, the score of its last position.
CriteriaOf == {tool_call.criteria[i] : i \in DOMAIN tool_call.criteria}

ScoreOf(i, c) ==
    LET at == {j \in DOMAIN tool_call.criteria : tool_call.criteria[j] = c}
    IN  score_results[i].output[CHOOSE j \in at : \A l \in at : l <= j]

RECURSIVE Total(_, _)
Total(i, cs) ==
    IF cs = {} THEN 0
    ELSE LET c == CHOOSE x \in cs : TRUE
         IN  ScoreOf(i, c) + Total(i, cs \ {c})

MeanAboveTwo(i) ==
    /\ ~score_results[i].raised
    /\ CriteriaOf # {}
    /\ Total(i, CriteriaOf) > 2 * Cardinality(CriteriaOf)

RECURSIVE KeptFrom(_)
KeptFrom(i) ==
    IF i > Len(documents) THEN <<>>
    ELSE (IF MeanAboveTwo(i) THEN <<documents[i]>> ELSE <<>>)
         \o KeptFrom(i + 1)

C25_KeepsAboveTwo ==
    (pc = "tool_returned" /\ tool_call.name = "filter_results")
       => /\ tool_return.results = KeptFrom(1)
          /\ tool_return.count = Len(KeptFrom(1))

\* two documents under two criteria: the first has a mean of exactly 2 and
\* is dropped, the second a mean of 2.5 and is the only one returned
C25_Witness ==
    /\ pc = "tool_returned"
    /\ tool_call.name = "filter_results"
    /\ tool_call.criteria = <<"a", "b">>
    /\ Len(documents) = 2
    /\ documents[1] # documents[2]
    /\ score_results[1] = [raised |-> FALSE, output |-> <<1, 3>>]
    /\ score_results[2] = [raised |-> FALSE, output |-> <<3, 2>>]
    /\ tool_return.count = 1
    /\ tool_return.results = <<documents[2]>>

\* C28: _execute_tool_calls runs the requests of the last assistant turn one
\* at a time, in the order of the turn: each request appends one tool turn
\* with its call id before the next one starts, so the tool turns after the
\* assistant turn are those of the requests run so far, in request order.
AssistantAt ==
    CHOOSE k \in DOMAIN messages :
       /\ messages[k].role = "assistant"
       /\ \A l \in DOMAIN messages : l > k => messages[l].role # "assistant"

\* the turns after the assistant turn are the tool turns of requests 1..n
AnsweredUpTo(n) ==
    /\ Len(messages) = AssistantAt + n
    /\ \A j \in 1..n :
          /\ messages[AssistantAt + j].role = "tool"
          /\ messages[AssistantAt + j].tool_call_id = msg.tool_calls[j].id

C28_ToolTurnsInRequestOrder ==
    /\ [](msg.tool_calls # <<>>
             => /\ messages[AssistantAt].tool_calls = msg.tool_calls
                /\ AnsweredUpTo(call_idx - 1))
    /\ [][msg.tool_calls # <<>>
             => /\ tool_args'.name = msg.tool_calls[call_idx].name
                /\ \/ messages' = messages
                   \/ /\ Len(messages') = Len(messages) + 1
                      /\ messages'[Len(messages')].tool_call_id =
                            msg.tool_calls[call_idx].id
                      /\ call_idx' = call_idx + 1]_vars

\* three requests were run: three tool turns after the assistant turn, with
\* the call ids 2, 3, 4 of the requests in that order
C28_Witness ==
    /\ pc = "save"
    /\ Len(msg.tool_calls) = 3
    /\ msg.tool_calls[1].name # msg.tool_calls[2].name
    /\ Len(messages) = AssistantAt + 3
    /\ \A j \in 1..3 : messages[AssistantAt + j].tool_call_id = j + 1

\* C29: when resolving or running the tool of the k-th request fails,
\* _execute_tool_calls raises at once and is not run again: no tool turn for
\* request k or a later one, the tool turns of requests 1..k-1 stay.
C29_FailureStopsTheTurn ==
    /\ [](pc = "run_raised"
             => /\ raised \in {"ToolError", "NotFoundError"}
                /\ call_idx \in 1..Len(msg.tool_calls)
                /\ tool_args.name = msg.tool_calls[call_idx].name
                /\ AnsweredUpTo(call_idx - 1)
                /\ \A j \in call_idx..Len(msg.tool_calls) :
                      \A k \in DOMAIN messages :
                         messages[k].tool_call_id # msg.tool_calls[j].id)
    /\ [][pc # "run_raised"]_vars

\* the second of three requests failed: one tool turn, the one of request 1
C29_Witness ==
    /\ pc = "run_raised"
    /\ Len(msg.tool_calls) = 3
    /\ call_idx = 2
    /\ Len(messages) = AssistantAt + 1
    /\ messages[Len(messages)].tool_call_id = msg.tool_calls[1].id

\* C30: the executor puts the transcript under 'messages' if and only if the
\* name of the tool is exactly 'db_store_tool_results'; what it puts there
\* holds the tool turns of the earlier requests of the same assistant turn,
\* so the store tool finds them (its result counts them).
C30_InjectsForStoreToolOnly ==
    [][msg.tool_calls # <<>> =>
       LET call == msg.tool_calls[call_idx]
       IN  /\ tool_args'.injected = (call.name = "db_store_tool_results")
           /\ ~tool_args'.injected => tool_args'.messages = <<>>
           /\ tool_args'.injected
                 => /\ tool_args'.messages = messages
                    /\ \A j \in 1..(call_idx - 1) :
                          \E k \in DOMAIN tool_args'.messages :
                             /\ tool_args'.messages[k].role = "tool"
                             /\ tool_args'.messages[k].tool_call_id =
                                   msg.tool_calls[j].id
                    /\ Len(messages') > Len(messages)
                          => messages'[Len(messages')] =
                                ToolTurn(call,
                                   Payload("dict", Absent, Absent,
                                      "count " \o ToString(Cardinality(
                                         {k \in DOMAIN messages :
                                             messages[k].role = "tool"}))))
      ]_vars

\* a search and then a store request on one assistant turn: the store tool
\* was handed a transcript that ends with the tool turn of the search
C30_Witness ==
    /\ pc = "save"
    /\ Len(msg.tool_calls) = 2
    /\ msg.tool_calls[1].name = "search_search_web"
    /\ msg.tool_calls[2].name = "db_store_tool_results"
    /\ tool_args.injected
    /\ tool_args.messages[Len(tool_args.messages)].tool_call_id =
          msg.tool_calls[1].id
    /\ Len(messages) = Len(tool_args.messages) + 1

\* C31: when the last turn carries no request, _execute_tool_calls runs no
\* tool and returns the transcript as it was: no turn added, removed or
\* changed; requests on a turn that is not the last one are not run.
C31_NoRequestNoChange ==
    [][(pc = "tools"
        /\ call_idx = 1
        /\ (messages = <<>> \/ messages[Len(messages)].tool_calls = <<>>))
          => /\ messages' = messages
             /\ tool_args' = tool_args
             /\ raised' = raised
             /\ pc' = after(ctx)]_vars

\* the call returned on a transcript that ends with a user turn and holds
\* an assistant turn with two requests: nothing was run for them
C31_Witness ==
    /\ pc = after(ctx)
    /\ tool_args = <<>>
    /\ messages # <<>>
    /\ messages[Len(messages)].role = "user"
    /\ Len(messages) = 4
    /\ Len(messages[3].tool_calls) = 2

\* C32: a call of validate_step appends, in this order, one system turn with
\* the validation framing, one user turn with the validation prompt, the
\* assistant reply of its chat call and one tool turn per request of that
\* reply; it removes and reorders nothing.
ValidationTail ==
    LET n == Len(msg.tool_calls)
        at == Len(messages) - n
    IN  /\ at >= 3
        /\ messages[at - 2] = SystemTurn("VALIDATION_PROMPT")
        /\ messages[at - 1] = UserTurn(validation_prompt(stage))
        /\ messages[at] = AssistantTurn(msg.content, msg.tool_calls)
        /\ \A j \in 1..n :
              /\ messages[at + j].role = "tool"
              /\ messages[at + j].tool_call_id = msg.tool_calls[j].id

C32_ValidateStepAppends ==
    /\ [](pc = "validate_end" => ValidationTail)
    /\ [][/\ (pc = "loop" /\ pc' = "chat_wait")
             => /\ Len(messages') = Len(messages) + 2
                /\ SubSeq(messages', 1, Len(messages)) = messages
          /\ (ctx = "validate" /\ pc = "chat_wait")
             => \/ messages' = messages
                \/ /\ Len(messages') = Len(messages) + 1
                   /\ SubSeq(messages', 1, Len(messages)) = messages
                   /\ messages'[Len(messages')].role = "assistant"
          /\ (ctx = "validate" /\ pc = "tools")
             => \/ messages' = messages
                \/ /\ Len(messages') = Len(messages) + 1
                   /\ SubSeq(messages', 1, Len(messages)) = messages
                   /\ messages'[Len(messages')].role = "tool"
          /\ pc = "validate_end" => messages' = messages]_vars

\* validate_step is about to return after a reply that asked for a tool
C32_Witness ==
    /\ pc = "validate_end"
    /\ Len(msg.tool_calls) = 1
    /\ messages[Len(messages)].role = "tool"
    /\ messages[Len(messages) - 3].role = "system"

\* C33: the events of the stage runner for one stage come in this order: one
\* 'Starting'; one 'Saving' exactly for search, filter and synthesize; the
\* 'Validating' events with the attempts 1, 2, ...; one terminal event when
\* the stage is left, which is the success event if and only if the last
\* verdict of the stage approved.
RunnerEventsOf(i) ==
    SelectSeq(queue, LAMBDA e : IsRunnerEvent(e) /\ e.step = STAGES[i])

SavingStages == {"search", "filter", "synthesize"}

InStageOrder(i) ==
    LET R == RunnerEventsOf(i)
        s == IF STAGES[i] \in SavingStages THEN 1 ELSE 0
    IN  /\ i <= n_started => Len(R) >= 1
        /\ i > n_started => R = <<>>
        /\ i <= n_ended => (Len(R) >= 1 + s /\ IsTerminalEvent(R[Len(R)]))
        /\ \A k \in 1..Len(R) :
              /\ k = 1 => R[k].message = "Starting"
              /\ (k = 2 /\ s = 1) => R[k].message = "Saving"
              /\ k > 1 + s
                    => \/ R[k].message = "Validating"
                          /\ R[k].attempt = k - 1 - s
                       \/ IsTerminalEvent(R[k]) /\ k = Len(R) /\ i <= n_ended

C34_EveryRequestTrimmed ==
    \A k \in DOMAIN requests :
       \E limit \in 1..MAX_MESSAGE_HISTORY :
          requests[k] = _trim_message_history(messages, limit)

\* C35: when two runs started through the API overlap, every progress event
\* a run emits is put on the queue of its own task, never on the queue of
\* the other one.
C35_EventsOnOwnQueue ==
    \A t \in TaskIds :
       \A k \in DOMAIN progress_queues[t] :
          progress_queues[t][k] # Sentinel
             => progress_queues[t][k].message = t

\* C36: run_sota_generation ends every execution path (success, a missing
\* key, an exception of the orchestrator) with the task completed or failed,
\* the event of that status on the queue of the task and, right after it, the
\* end-of-stream item, put once and as the last item of the run; the queue
\* of a task that is not over holds no end-of-stream item; the streaming
\* generator takes no item once it has taken the end-of-stream item
SentinelsIn(q) == Cardinality({k \in DOMAIN q : q[k] = Sentinel})

EndsWithSentinel(q) == q # <<>> /\ q[Len(q)] = Sentinel

C36_EveryPathEndsTheStream ==
    /\ [](\A t \in TaskIds :
            /\ SentinelsIn(progress_queues[t])
                  = (IF tasks[t].at = "done" THEN 1 ELSE 0)
            /\ tasks[t].at = "done" =>
                  /\ tasks[t].status \in {"completed", "failed"}
                  /\ \E k \in 2..Len(progress_queues[t]) :
                        /\ progress_queues[t][k] = Sentinel
                        /\ progress_queues[t][k - 1]
                              = Event(tasks[t].status, t, "", 0)
            /\ \A k \in 1..(Len(streamed[t]) - 1) : streamed[t][k] # Sentinel)
    /\ [][\A t \in TaskIds :
            /\ (tasks[t].at # "done" /\ tasks'[t].at = "done")
                  => EndsWithSentinel(progress_queues'[t])
            /\ streamed'[t] # streamed[t] => ~EndsWithSentinel(streamed[t])]_vars

C36_Witness ==
    /\ tasks["t1"].at = "done" /\ tasks["t1"].status = "completed"
    /\ tasks["t2"].at = "done" /\ tasks["t2"].status = "failed"
    /\ tasks["t2"].steps = 1
    /\ EndsWithSentinel(streamed["t1"])
    /\ EndsWithSentinel(streamed["t2"])
    /\ Len(streamed["t2"]) = Len(progress_queues["t2"])

\* C37: the verdict of validate_step is read from the text of the reply
\* alone; after a reply that starts with APPROVE and asks for tools, the
\* tools have run and their tool turns end the transcript, the verdict is
\* approval, and the stage is left with no further validation call
ApprovedWithCalls ==
    /\ pc = "loop"
    /\ ctx = "validate"
    /\ approved_of(msg.content)
    /\ msg.tool_calls # <<>>

C37_VerdictFromTextOnly ==
    /\ [](ApprovedWithCalls
            => /\ ValidationTail
               /\ approved
               /\ ~loop_continues(approved, number_of_tries))
    /\ [][/\ pc = "validate_end" => approved' = approved_of(msg.content)
          /\ ApprovedWithCalls
               => /\ validator_calls' = validator_calls
                  /\ messages' = messages
                  /\ pc' \in {"step", "return"}]_vars

C37_Witness ==
    /\ ApprovedWithCalls
    /\ MAX_RETRIES = 2
    /\ number_of_tries = 2
    /\ messages[Len(messages)].role = "tool"
    /\ messages[Len(messages) - 1].role = "assistant"
    /\ messages[Len(messages) - 1].content = msg.content

\* C38: upsert_documents leaves every entry of the store as it is and adds
\* one entry per document it is given; after k executions of a stage tool
\* with the same two collections (source and destination apart), the
\* destination holds k entries for each document an execution puts out, one
\* per execution and in the order of the executions
OutputSources ==
    IF tool_call.name = "parse_documents"
    THEN collections[tool_call.source]
    ELSE SelectSeq(collections[tool_call.source],
                   LAMBDA doc : doc.class \in {"NotParsedDocument",
                                               "ParsedDocument"})

ExecutionsDone == calls_issued + (IF pc = "tool_returned" THEN 1 ELSE 0)

NoDocumentsTurn(m) ==
    /\ NamesSynthesis(m)
    /\ m.content[2] = "dict"
    /\ m.content[3] = "No documents found in collection"
    /\ m.content[5] = "error"

C39_ErrorTextIsTheReport ==
    LET S == {k \in 1..Len(messages) : NamesSynthesis(messages[k])}
    IN  (pc = "run_returned" /\ S # {} /\ NoDocumentsTurn(messages[LastOf(S)]))
           => /\ result.text = "No documents found in collection"
              /\ result.status = "completed"

C39_Witness ==
    /\ pc = "run_returned"
    /\ Len(messages) = 2
    /\ messages[1].role = "assistant"
    /\ NoDocumentsTurn(messages[2])
    /\ result.text = "No documents found in collection"
    /\ result.status = "completed"

====
